---- MODULE Spec2Model ----
(***************************************************************************)
(* A model of the link pipeline of mold's main.cc: symbol resolution and   *)
(* archive pull-in, COMDAT elimination, mergeable-string coalescing,       *)
(* section binning, intra-section layout, synthetic-table sizing and the   *)
(* file layout.  Every phase of the pipeline is a specification of its own *)
(* (SpecMerge, SpecResolve, ...): the phases are separated by barriers in  *)
(* main(), so each is explored from the inputs it can be handed.           *)
(***************************************************************************)
EXTENDS Integers, Sequences, FiniteSets, TLC

\* ------------------------------------------------------------------------
\* Bounds of the model
\* ------------------------------------------------------------------------

\* Number of object files handed to a parallel phase.
NFiles == 2

Files == 1..NFiles

\* Largest number of files handed to bin_sections.
NBFiles == 3

\* The number of shards bin_sections aims at: 128 in the source, scaled down so
\* that shards of several files and a partial last shard occur.
NumShards == 2

\* Largest number of members of an output section.
MaxMembers == 4

\* Largest number of output chunks handed to set_osec_offsets.
MaxChunks == 3

\* The slice length of set_isec_offsets: 100000 in the source, scaled down so
\* that an output section has several slices.
SliceUnit == 2

\* Number of input files of resolve_symbols (primary files and archive members)
\* when the registration tasks are interleaved.
NRFiles == 3

\* Number of input files of resolve_symbols when the archive traversal is
\* explored from the registered owners.
NAFiles == 4

\* ------------------------------------------------------------------------
\* Helpers
\* ------------------------------------------------------------------------

Max(a, b) == IF a >= b THEN a ELSE b

RECURSIVE SumOver(_, _)
\* Sum of f[x] for x in S.
SumOver(f, S) ==
  IF S = {} THEN 0
  ELSE LET x == CHOOSE y \in S : TRUE
       IN  f[x] + SumOver(f, S \ {x})

\* ------------------------------------------------------------------------
\* File priorities (main)
\* ------------------------------------------------------------------------

\* The number of files among the first n of the list whose is_in_archive
\* flag equals b.
RECURSIVE CountFlag(_, _, _)
CountFlag(flags, n, b) ==
  IF n = 0 THEN 0
  ELSE CountFlag(flags, n - 1, b) + (IF flags[n] = b THEN 1 ELSE 0)

\* main(): priority = 1; primary files get priority++ in list order, then
\* archive members get priority++ in list order.
SetPriorities(flags) ==
  [f \in DOMAIN flags |->
     IF ~flags[f]
     THEN CountFlag(flags, f, FALSE)
     ELSE CountFlag(flags, Len(flags), FALSE) + CountFlag(flags, f, TRUE)]

VARIABLES
  \* ---- handle_mergeable_strings / write_merged_strings ----
  mfiles,       \* the file list: [in_archive, sections: Seq([parent, pieces])]
  piece_isec,   \* StringPiece::isec, the atomic winner pointer (<<file, section>>)
  piece_off,    \* StringPiece::output_offset
  sec_size,     \* MergeableSection::size
  sec_offset,   \* MergeableSection::offset
  merged_size,  \* MergedSection::shdr.sh_size
  merged_shoff, \* MergedSection::shdr.sh_offset (set by the file layout)
  t1,           \* pass 1: each file task's position, pc and local `cur'
  t2,           \* pass 2: each file task's next section
  p3done,       \* pass 3 (sequential) has run
  tw,           \* write_merged_strings: each file task's next section
  copied,       \* per piece, the destinations of the memcpy calls, in order
  \* ---- resolve_symbols ----
  rfiles,       \* the input files: [in_archive, is_dso, defs, undefs]
  owner,        \* Symbol::file, the defining file (0: none)
  rt,           \* registration: each file task's position, pc and local `cur'
  is_alive,     \* ObjectFile::is_alive (atomic)
  fed,          \* the files handed to parallel_do: the roots and the fed ones
  nfed,         \* how many times each file was handed to parallel_do
  tr,           \* traversal: how many undefined symbols of a file were visited
  rphase,       \* "register", "mark", "done"
  file_list,    \* the vector `files'
  \* ---- eliminate_comdats ----
  cfiles,       \* the file list: [in_archive, groups: Seq([sig, members])]
  comdat_owner, \* the process-wide map signature -> owning file (0: none)
  ct,           \* claim pass: each file task's position, pc and local `cur'
  et,           \* elimination pass: each file task's next group
  sec_live,     \* per file, the input-section slots that are not null
  \* ---- bin_sections ----
  bfiles,       \* the file list: per file the sequence `sections', each entry
                \* the idx of its output_section (0: a null slot)
  bphase,       \* "start", "shards", "concat", "spin" (split does not return)
  slices,       \* the shards: slices of the file list
  groups,       \* groups[i][j]: the sections of shard i bound for output section j
  bt,           \* per shard task, the number of its files already binned
  ot,           \* per output-section task, the number of shards appended
  members,      \* OutputSection::members, as <<file, section index>> pairs
  \* ---- set_isec_offsets (one output section) ----
  imembers,     \* the members: [size, align] (sh_size, sh_addralign)
  ioffset,      \* InputChunk::offset of every member
  iphase,       \* "slices", "shift", "done"
  islice_done,  \* the slices whose first-pass (resp. shift) task has run
  isize,        \* size[i] of every slice
  ialign,       \* alignments[i] of every slice
  istart,       \* start[i] of every slice
  osec_size,    \* osec->shdr.sh_size
  osec_align,   \* osec->shdr.sh_addralign
  \* ---- scan_rels ----
  is_static,    \* config.is_static
  sfiles,       \* the file list: per file its `symbols', [rels, ifunc, own]
  slot,         \* per file and symbol, the slot indices (-1: not assigned)
  cnt,          \* per file, num_got, num_plt, num_gotplt, num_relplt, num_reldyn
  dynsyms,      \* per file, file->dynsyms (symbol positions)
  st,           \* slot assignment: per file task, the symbols already visited
  sphase,       \* "assign", "prefix", "done" (scan_rels has returned), "write",
                \* "written", "unmapped", "error" (error() has ended the link)
  pf,           \* the prefix-sum loop: the files already visited
  toff,         \* per file, got_offset, plt_offset, ... (-1: not set)
  tsize,        \* sh_size of .got, .plt, .got.plt, .rela.plt, .rela.dyn
  tsize0,       \* the sizes of the tables when scan_rels is entered
  dynsym_all,   \* out::dynsym's symbols, as <<file, symbol position>>
  wt,           \* write_got_plt: per file task, the symbols already visited
  reldyn_idx,   \* write_got_plt: per file task, the local reldyn_idx
  written,      \* the stores of write_got_plt: [tbl, off, kind, file, sym]
  \* ---- set_osec_offsets ----
  chunks,       \* the chunk list: [size, align, alloc, nobits, tls, new_ptload]
  ci,           \* the chunks already laid out
  fileoff,      \* the running file offset
  vaddr,        \* the running virtual address
  sh_offset,    \* per chunk, shdr.sh_offset
  sh_addr,      \* per chunk, shdr.sh_addr
  filesize,     \* the value set_osec_offsets returns (-1: not returned)
  \* ---- the stable sort of the chunks by get_section_rank ----
  rchunks,      \* the chunks to sort: [id, alloc, writable, exec, tls, nobits]
  rsorted,      \* the chunks after std::stable_sort
  sortphase,    \* "unsorted", "sorted"
  \* ---- the chunk list of main() ----
  cl_static,    \* config.is_static
  clist,        \* the vector `chunks': [name, alloc, writable, exec, tls, nobits]
  clphase,      \* "sections", "pushed", "erased", "sorted", "done"
  \* ---- compute_symtab sizes and write_symtab ----
  yfiles,       \* the files with the sizes compute_symtab left in them
  yphase,       \* "idle", "sum", "local", "info", "global", "assert", "write", "done", "abort"
  yi,           \* index of the file the running loop is at
  symtab_size,  \* out::symtab->shdr.sh_size
  strtab_size,  \* out::strtab->shdr.sh_size
  sh_info,      \* out::symtab->shdr.sh_info
  local_symtab_off,\* write_symtab: local_symtab_off
  local_strtab_off,\* write_symtab: local_strtab_off
  global_symtab_off,\* write_symtab: global_symtab_off
  global_strtab_off,\* write_symtab: global_strtab_off
  ywritten,     \* the files whose symbols write_symtab has written
  yinit,        \* the sizes the section constructors left in .symtab and .strtab
  \* ---- file priorities (main) ----
  pflags,       \* is_in_archive of the files, in file-list order
  pphase,       \* "idle", "primary", "archive", "internal", "done"
  pidx,         \* index of the file the running loop is at
  priority,     \* the counter `priority` of main
  fprio,        \* file->priority of the files, 0 while unset
  internal_priority,\* internal_file->priority, 0 while unset
  \* ---- pass 2 of handle_mergeable_strings, reference by reference ----
  p2t,          \* each file task's position: [s, r, pc, offset]
  off_readers,  \* per piece, the sections whose task read output_offset
  off_writes,   \* per piece, the sections whose task wrote output_offset, in order
  \* ---- clear_padding ----
  zi,           \* clear_padding: the loop index i
  zeroed,       \* the memset calls of clear_padding: [pos, len], in order
  pad_done,     \* clear_padding has returned
  \* ---- the writer passes of main ----
  nchunks,      \* chunks.size()
  nfiles,       \* files.size()
  wpc,          \* the step of main that is running: an index into WriterSteps
  wtask,        \* per item of the running step: "idle", "running" or "done"
  wstarted,     \* per step, the items whose task has started
  wfinished,    \* per step, the items whose task has returned
  buf           \* the output buffer: "none", "mapped" or "unmapped"

mergeVars == <<mfiles, piece_isec, piece_off, sec_size, sec_offset, merged_size,
               merged_shoff, t1, t2, p3done, tw, copied>>

\* The input files of resolve_symbols.
RFiles == DOMAIN rfiles

resolveVars == <<rfiles, owner, rt, is_alive, fed, nfed, tr, rphase, file_list>>

comdatVars == <<cfiles, comdat_owner, ct, et, sec_live>>

binVars == <<bfiles, bphase, slices, groups, bt, ot, members>>

isecVars == <<imembers, ioffset, iphase, islice_done, isize, ialign, istart,
              osec_size, osec_align>>

writeVars == <<wt, reldyn_idx, written>>

scanVars == <<is_static, sfiles, slot, cnt, dynsyms, st, sphase, pf, toff, tsize,
              tsize0, dynsym_all, writeVars>>

osecVars == <<chunks, ci, fileoff, vaddr, sh_offset, sh_addr, filesize>>

rankVars == <<rchunks, rsorted, sortphase>>

chunksVars == <<cl_static, clist, clphase>>

symtabVars == <<yfiles, yphase, yi, symtab_size, strtab_size, sh_info, local_symtab_off, local_strtab_off, global_symtab_off, global_strtab_off, ywritten, yinit>>

priorityVars == <<pflags, pphase, pidx, priority, fprio, internal_priority>>

pass2Vars == <<p2t, off_readers, off_writes>>

padVars == <<zi, zeroed, pad_done>>

writerVars == <<nchunks, nfiles, wpc, wtask, wstarted, wfinished, buf>>

vars == <<mergeVars, resolveVars, comdatVars, binVars, isecVars, scanVars, osecVars,
         rankVars,
         chunksVars,
         symtabVars,
         priorityVars,
         pass2Vars,
         padVars,
         writerVars>>

\* What the actions of one phase leave alone.
notMerge == <<resolveVars, comdatVars, binVars, isecVars, scanVars, osecVars,
  rankVars,
  chunksVars,
  symtabVars,
  priorityVars,
  pass2Vars,
  padVars,
  writerVars>>
notResolve == <<mergeVars, comdatVars, binVars, isecVars, scanVars, osecVars,
  rankVars,
  chunksVars,
  symtabVars,
  priorityVars,
  pass2Vars,
  padVars,
  writerVars>>
notComdat == <<mergeVars, resolveVars, binVars, isecVars, scanVars, osecVars,
  rankVars,
  chunksVars,
  symtabVars,
  priorityVars,
  pass2Vars,
  padVars,
  writerVars>>
notBin == <<mergeVars, resolveVars, comdatVars, isecVars, scanVars, osecVars,
  rankVars,
  chunksVars,
  symtabVars,
  priorityVars,
  pass2Vars,
  padVars,
  writerVars>>
notIsec == <<mergeVars, resolveVars, comdatVars, binVars, scanVars, osecVars,
  rankVars,
  chunksVars,
  symtabVars,
  priorityVars,
  pass2Vars,
  padVars,
  writerVars>>
notScan == <<mergeVars, resolveVars, comdatVars, binVars, isecVars, osecVars,
  rankVars,
  chunksVars,
  symtabVars,
  priorityVars,
  pass2Vars,
  padVars,
  writerVars>>
notOsec == <<mergeVars, resolveVars, comdatVars, binVars, isecVars, scanVars,
  rankVars,
  chunksVars,
  symtabVars,
  priorityVars,
  pass2Vars,
  padVars,
  writerVars>>
notRank == <<mergeVars, resolveVars, comdatVars, binVars, isecVars, scanVars, osecVars,
  chunksVars,
  symtabVars,
  priorityVars,
  pass2Vars,
  padVars,
  writerVars>>
notChunks == <<mergeVars, resolveVars, comdatVars, binVars, isecVars, scanVars, osecVars, rankVars,
  symtabVars,
  priorityVars,
  pass2Vars,
  padVars,
  writerVars>>
notSymtab == <<mergeVars, resolveVars, comdatVars, binVars, isecVars, scanVars, osecVars, rankVars, chunksVars,
  priorityVars,
  pass2Vars,
  padVars,
  writerVars>>
notPriority == <<mergeVars, resolveVars, comdatVars, binVars, isecVars, scanVars, osecVars, rankVars, chunksVars, symtabVars,
  pass2Vars,
  padVars,
  writerVars>>
notPass2 == <<mergeVars, resolveVars, comdatVars, binVars, isecVars, scanVars, osecVars, rankVars, chunksVars, symtabVars, priorityVars,
  padVars,
  writerVars>>
\* The variables that neither the merge passes nor the walk of pass 2 change.
notMergePass2 == <<resolveVars, comdatVars, binVars, isecVars, scanVars, osecVars, rankVars, chunksVars, symtabVars, priorityVars,
  padVars,
  writerVars>>
notPad == <<mergeVars, resolveVars, comdatVars, binVars, isecVars, scanVars, osecVars, rankVars, chunksVars, symtabVars, priorityVars, pass2Vars,
  writerVars>>
notWriter == <<mergeVars, resolveVars, comdatVars, binVars, isecVars, scanVars, osecVars, rankVars, chunksVars, symtabVars, priorityVars, pass2Vars, padVars>>

\* The variables of a phase that a specification does not explore.
MergeIdle ==
  /\ mfiles = << >> /\ piece_isec = << >> /\ piece_off = << >> /\ sec_size = << >>
  /\ sec_offset = << >> /\ merged_size = << >> /\ merged_shoff = << >>
  /\ t1 = << >> /\ t2 = << >> /\ p3done = FALSE /\ tw = << >> /\ copied = << >>

ResolveIdle ==
  /\ rfiles = << >> /\ owner = << >> /\ rt = << >> /\ is_alive = << >>
  /\ fed = {} /\ nfed = << >> /\ tr = << >> /\ rphase = "idle" /\ file_list = << >>

ComdatIdle ==
  /\ cfiles = << >> /\ comdat_owner = << >> /\ ct = << >> /\ et = << >>
  /\ sec_live = << >>

BinIdle ==
  /\ bfiles = << >> /\ bphase = "idle" /\ slices = << >> /\ groups = << >>
  /\ bt = << >> /\ ot = << >> /\ members = << >>

IsecIdle ==
  /\ imembers = << >> /\ ioffset = << >> /\ iphase = "idle" /\ islice_done = {}
  /\ isize = << >> /\ ialign = << >> /\ istart = << >> /\ osec_size = 0
  /\ osec_align = 0

ScanIdle ==
  /\ is_static = FALSE /\ sfiles = << >> /\ slot = << >> /\ cnt = << >>
  /\ dynsyms = << >> /\ st = << >> /\ sphase = "idle" /\ pf = 0 /\ toff = << >>
  /\ tsize = << >> /\ tsize0 = << >> /\ dynsym_all = << >>
  /\ wt = << >> /\ reldyn_idx = << >> /\ written = {}

OsecIdle ==
  /\ chunks = << >> /\ ci = 0 /\ fileoff = 0 /\ vaddr = 0 /\ sh_offset = << >>
  /\ sh_addr = << >> /\ filesize = -1

RankIdle ==
  /\ rchunks = << >> /\ rsorted = << >> /\ sortphase = "idle"

ChunksIdle ==
  /\ cl_static = FALSE /\ clist = << >> /\ clphase = "idle"

SymtabIdle ==
  /\ yfiles = << >>
  /\ yphase = "idle"
  /\ yi = 0
  /\ symtab_size = 0
  /\ strtab_size = 0
  /\ sh_info = 0
  /\ local_symtab_off = << >>
  /\ local_strtab_off = << >>
  /\ global_symtab_off = << >>
  /\ global_strtab_off = << >>
  /\ ywritten = {}
  /\ yinit = [symtab |-> 0, strtab |-> 0]

PriorityIdle ==
  /\ pflags = << >>
  /\ pphase = "idle"
  /\ pidx = 0
  /\ priority = 0
  /\ fprio = << >>
  /\ internal_priority = 0

Pass2Idle ==
  /\ p2t = << >> /\ off_readers = << >> /\ off_writes = << >>

PadIdle ==
  /\ zi = 1 /\ zeroed = << >> /\ pad_done = FALSE

WriterIdle ==
  /\ nchunks = 0 /\ nfiles = 0 /\ wpc = 0 /\ wtask = << >>
  /\ wstarted = << >> /\ wfinished = << >> /\ buf = "none"

\* ========================================================================
\* Mergeable strings
\* ========================================================================

\* The MergedSection instances (output string pools).
MergedIds == {1, 2}

\* The string contents that occur; a StringPiece is <<parent, content>>.
Contents == {1, 2}

Pieces == MergedIds \X Contents

\* piece.data.size(): contents of different lengths.
DataSize(p) == p[2] + 1

NullSec == <<0, 0>>

MSec(par, ps) == [parent |-> par, pieces |-> ps]

\* The layouts of mergeable sections a file may have (a piece list holds each
\* piece once, in the order of the input section).
FileShapes ==
  { << >>,
    << MSec(1, <<1, 2>>) >>,
    << MSec(1, <<2, 1>>) >>,
    << MSec(1, <<2>>), MSec(1, <<1, 2>>) >>,
    << MSec(2, <<1>>), MSec(1, <<1>>) >>,
    << MSec(1, << >>), MSec(2, <<2, 1>>) >> }

\* sh_offset values the file layout may give a MergedSection.
ShOffsets == {0, 64}

NSecs(f) == Len(mfiles[f].sections)
SecKeys == UNION {{<<f, s>> : s \in 1..NSecs(f)} : f \in Files}
SecOf(k) == mfiles[k[1]].sections[k[2]]
RefPiece(f, s, r) == <<SecOf(<<f, s>>).parent, SecOf(<<f, s>>).pieces[r]>>
SecPieces(k) == {<<SecOf(k).parent, SecOf(k).pieces[r]>> : r \in 1..Len(SecOf(k).pieces)}
\* The sections whose piece list contains p.
Holders(p) == {k \in SecKeys : p \in SecPieces(k)}

MPriority(f) == SetPriorities([g \in Files |-> mfiles[g].in_archive])[f]

\* The first reference at or after section s of file f; <<0, 0>> at the end.
RECURSIVE FirstRefFrom(_, _)
FirstRefFrom(f, s) ==
  IF s > NSecs(f) THEN <<0, 0>>
  ELSE IF Len(mfiles[f].sections[s].pieces) > 0 THEN <<s, 1>>
  ELSE FirstRefFrom(f, s + 1)

NextRef(f, s, r) ==
  IF r < Len(mfiles[f].sections[s].pieces) THEN <<s, r + 1>>
  ELSE FirstRefFrom(f, s + 1)

TaskAt(pos, cur) ==
  IF pos = <<0, 0>> THEN [s |-> 0, r |-> 0, pc |-> "done", cur |-> NullSec]
  ELSE [s |-> pos[1], r |-> pos[2], pc |-> "load", cur |-> cur]

\* A variant of the loop condition that always takes the piece.
StealsAlways(cur, f) == TRUE

\* A variant of the loop condition that prefers the larger priority.
StealsInverted(cur, f) == cur = NullSec \/ MPriority(cur[1]) < MPriority(f)

\* while (!cur || cur->file->priority > isec.file->priority)
Steals(cur, f) == cur = NullSec \/ MPriority(cur[1]) > MPriority(f)

MergeStart ==
  /\ mfiles \in [Files -> [in_archive : BOOLEAN, sections : FileShapes]]
  /\ piece_isec = [p \in Pieces |-> NullSec]
  /\ piece_off = [p \in Pieces |-> -1]
  /\ sec_size = [k \in SecKeys |-> -1]
  /\ sec_offset = [k \in SecKeys |-> -1]
  /\ merged_size = [m \in MergedIds |-> 0]
  /\ merged_shoff = [m \in MergedIds |-> 0]
  /\ t1 = [f \in Files |-> TaskAt(FirstRefFrom(f, 1), NullSec)]
  /\ t2 = [f \in Files |-> 1]
  /\ p3done = FALSE
  /\ tw = [f \in Files |-> 0]
  /\ copied = [p \in Pieces |-> << >>]

\* Pass 1, `MergeableSection *cur = ref.piece->isec;' and the first test of
\* the loop condition on the local copy.
P1Load(f) ==
  /\ t1[f].pc = "load"
  /\ LET cur == piece_isec[RefPiece(f, t1[f].s, t1[f].r)]
     IN  t1' = [t1 EXCEPT ![f] =
                  IF Steals(cur, f) THEN [@ EXCEPT !.pc = "cas", !.cur = cur]
                  ELSE TaskAt(NextRef(f, t1[f].s, t1[f].r), NullSec)]
  /\ UNCHANGED <<mfiles, piece_isec, piece_off, sec_size, sec_offset, merged_size,
                 merged_shoff, t2, p3done, tw, copied, notMerge>>

\* Pass 1, `ref.piece->isec.compare_exchange_strong(cur, &isec)': on success
\* break; on failure cur holds the value seen and the condition is tested again.
P1Cas(f) ==
  /\ t1[f].pc = "cas"
  /\ LET p == RefPiece(f, t1[f].s, t1[f].r)
         next == TaskAt(NextRef(f, t1[f].s, t1[f].r), NullSec)
     IN  IF piece_isec[p] = t1[f].cur
         THEN /\ piece_isec' = [piece_isec EXCEPT ![p] = <<f, t1[f].s>>]
              /\ t1' = [t1 EXCEPT ![f] = next]
         ELSE /\ piece_isec' = piece_isec
              /\ t1' = [t1 EXCEPT ![f] =
                          IF Steals(piece_isec[p], f)
                          THEN [@ EXCEPT !.cur = piece_isec[p]]
                          ELSE next]
  /\ UNCHANGED <<mfiles, piece_off, sec_size, sec_offset, merged_size,
                 merged_shoff, t2, p3done, tw, copied, notMerge>>

\* The first parallel_for_each has returned: every pass-1 task has finished.
Pass1Finished == \A f \in Files : t1[f].pc = "done"

\* A variant of pass 2 in which every section holding a piece assigns it.
RECURSIVE Pass2WalkAnyHolder(_, _, _, _)
Pass2WalkAnyHolder(k, r, offs, offset) ==
  IF r > Len(SecOf(k).pieces) THEN <<offs, offset>>
  ELSE LET p == RefPiece(k[1], k[2], r)
       IN  Pass2WalkAnyHolder(k, r + 1, [offs EXCEPT ![p] = offset],
                              offset + DataSize(p))

\* Pass 2 over the references r.. of section k: the pair <<output offsets,
\* running offset>> after the loop.
RECURSIVE Pass2Walk(_, _, _, _)
Pass2Walk(k, r, offs, offset) ==
  IF r > Len(SecOf(k).pieces) THEN <<offs, offset>>
  ELSE LET p == RefPiece(k[1], k[2], r)
       IN  IF piece_isec[p] = k /\ offs[p] = -1
           THEN Pass2Walk(k, r + 1, [offs EXCEPT ![p] = offset], offset + DataSize(p))
           ELSE Pass2Walk(k, r + 1, offs, offset)

\* Pass 2, one mergeable section of file f.
P2Section(f) ==
  /\ Pass1Finished
  /\ t2[f] <= NSecs(f)
  /\ LET k == <<f, t2[f]>>
         res == Pass2Walk(k, 1, piece_off, 0)
     IN  /\ piece_off' = res[1]
         /\ sec_size' = [sec_size EXCEPT ![k] = res[2]]
  /\ t2' = [t2 EXCEPT ![f] = @ + 1]
  /\ UNCHANGED <<mfiles, piece_isec, sec_offset, merged_size, merged_shoff,
                 t1, p3done, tw, copied, notMerge>>

Pass2Finished == Pass1Finished /\ \A f \in Files : t2[f] > NSecs(f)

\* The sections in file-then-section order.
RECURSIVE SecList(_, _)
SecList(f, s) ==
  IF f > NFiles THEN << >>
  ELSE IF s > NSecs(f) THEN SecList(f + 1, 1)
  ELSE <<(<<f, s>>)>> \o SecList(f, s + 1)

\* Pass 3 over the list ks: <<section offsets, MergedSection sizes>>.
RECURSIVE Pass3Walk(_, _, _)
Pass3Walk(ks, offs, sizes) ==
  IF ks = << >> THEN <<offs, sizes>>
  ELSE LET k == Head(ks)
           m == SecOf(k).parent
       IN  Pass3Walk(Tail(ks), [offs EXCEPT ![k] = sizes[m]],
                     [sizes EXCEPT ![m] = @ + sec_size[k]])

\* Pass 3 (sequential): isec.offset = osec.shdr.sh_size; sh_size += isec.size.
\* The file layout that follows gives every MergedSection its sh_offset.
P3Assign ==
  /\ Pass2Finished
  /\ ~p3done
  /\ LET res == Pass3Walk(SecList(1, 1), sec_offset, merged_size)
     IN  /\ sec_offset' = res[1]
         /\ merged_size' = res[2]
  /\ merged_shoff' \in [MergedIds -> ShOffsets]
  /\ p3done' = TRUE
  /\ tw' = [f \in Files |-> 1]
  /\ UNCHANGED <<mfiles, piece_isec, piece_off, sec_size, t1, t2, copied, notMerge>>

\* The destinations of section k's memcpy calls from reference r on.
RECURSIVE WriteWalk(_, _, _)
WriteWalk(k, r, cp) ==
  IF r > Len(SecOf(k).pieces) THEN cp
  ELSE LET p == RefPiece(k[1], k[2], r)
           base == merged_shoff[SecOf(k).parent] + sec_offset[k]
       IN  IF piece_isec[p] = k
           THEN WriteWalk(k, r + 1, [cp EXCEPT ![p] = Append(@, base + piece_off[p])])
           ELSE WriteWalk(k, r + 1, cp)

\* write_merged_strings, one mergeable section of file f.
WriteSection(f) ==
  /\ p3done
  /\ tw[f] <= NSecs(f)
  /\ copied' = WriteWalk(<<f, tw[f]>>, 1, copied)
  /\ tw' = [tw EXCEPT ![f] = @ + 1]
  /\ UNCHANGED <<mfiles, piece_isec, piece_off, sec_size, sec_offset, merged_size,
                 merged_shoff, t1, t2, p3done, notMerge>>

WriteFinished == p3done /\ \A f \in Files : tw[f] > NSecs(f)

MergeNext ==
  \/ \E f \in Files : P1Load(f)
  \/ \E f \in Files : P1Cas(f)
  \/ \E f \in Files : P2Section(f)
  \/ P3Assign
  \/ \E f \in Files : WriteSection(f)

MergeInit == MergeStart /\ ResolveIdle /\ ComdatIdle /\ BinIdle /\ IsecIdle /\ ScanIdle /\ OsecIdle /\ RankIdle /\ ChunksIdle /\ SymtabIdle /\ PriorityIdle /\ Pass2Idle /\ PadIdle /\ WriterIdle

SpecMerge == MergeInit /\ [][MergeNext]_vars

\* ---- properties of the mergeable-string passes ----

\* The pieces that occur in a section of the file list.
Linked == {p \in Pieces : Holders(p) # {}}

Winner(p) == piece_isec[p]

\* C1: once pass 1 has finished, under every interleaving of the per-file
\* tasks and of their compare-and-swap retries, the isec of each string piece
\* of the link points to one mergeable section, that section holds the piece,
\* and its file has the minimum priority among the sections holding the piece.
C1_WinnerIsMinPriority ==
  Pass1Finished =>
    \A p \in Linked :
      /\ Winner(p) \in Holders(p)
      /\ \A k \in Holders(p) : MPriority(Winner(p)[1]) <= MPriority(k[1])

\* Pass 1 is over, and a piece held by both files was won by the second file
\* of the list, which took it from (or kept it against) the first.
C1_Witness ==
  /\ Pass1Finished
  /\ \E p \in Linked :
       /\ \E k \in Holders(p) : k[1] = 1
       /\ \E k \in Holders(p) : k[1] = 2
       /\ Winner(p)[1] = 2

\* The bytes a piece occupies inside its MergedSection.
PieceRange(p) ==
  LET start == sec_offset[Winner(p)] + piece_off[p]
  IN  start .. (start + DataSize(p) - 1)

\* C5: after handle_mergeable_strings and write_merged_strings, each distinct
\* piece of a MergedSection is copied exactly once, to parent sh_offset +
\* winner.offset + piece.output_offset; the ranges of distinct pieces of one
\* MergedSection are pairwise disjoint and inside [0, sh_size), and sh_size is
\* the sum of the lengths of the distinct pieces, however many files hold each.
C5_MergedLayout ==
  WriteFinished =>
    \A m \in MergedIds :
      LET pool == {p \in Linked : p[1] = m}
      IN  /\ \A p \in pool :
               /\ Len(copied[p]) = 1
               /\ copied[p][1] = merged_shoff[m] + sec_offset[Winner(p)] + piece_off[p]
               /\ PieceRange(p) \subseteq 0 .. (merged_size[m] - 1)
          /\ \A p, q \in pool : p # q => PieceRange(p) \cap PieceRange(q) = {}
          /\ merged_size[m] = SumOver([p \in pool |-> DataSize(p)], pool)

\* Everything was written, a MergedSection has two distinct pieces, and one
\* of them occurs in both files.
C5_Witness ==
  /\ WriteFinished
  /\ \E m \in MergedIds :
       /\ Cardinality({p \in Linked : p[1] = m}) = 2
       /\ \E p \in Linked :
            /\ p[1] = m
            /\ Cardinality({k[1] : k \in Holders(p)}) >= 2
            /\ Len(copied[p]) = 1

\* ========================================================================
\* resolve_symbols
\* ========================================================================

\* The symbol names of the link.
Syms == {1, 2}

RFile(arch, dso, d1, d2, und) ==
  [in_archive |-> arch, is_dso |-> dso, defs |-> <<d1, d2>>, undefs |-> und]

\* The input files that occur: defs[s] is "strong", "common" or "none", undefs
\* the symbols the file refers to without defining them.  A DSO is a primary
\* file; archive members are relocatable objects.
RFileShapes ==
  { RFile(FALSE, FALSE, "none", "none", {1}),
    RFile(FALSE, FALSE, "strong", "none", {2}),
    RFile(FALSE, FALSE, "none", "common", {1}),
    RFile(FALSE, TRUE, "strong", "none", {2}),
    RFile(TRUE, FALSE, "strong", "none", {2}),
    RFile(TRUE, FALSE, "none", "strong", {1}),
    RFile(TRUE, FALSE, "strong", "strong", {}) }

RPriority(f) == SetPriorities([g \in RFiles |-> rfiles[g].in_archive])[f]

\* The elements of a set of numbers in increasing order.
RECURSIVE SortedSeq(_)
SortedSeq(S) ==
  IF S = {} THEN << >>
  ELSE LET m == CHOOSE x \in S : \A y \in S : x <= y
       IN  <<m>> \o SortedSeq(S \ {m})

\* The symbols a file defines, and those it leaves undefined, in symbol-table order.
DefSeq(f) == SortedSeq({s \in Syms : rfiles[f].defs[s] # "none"})
UndefSeq(f) == SortedSeq(rfiles[f].undefs)

\* The dominance class of file f's definition of symbol s (smaller is
\* stronger): strong from a live non-DSO file, common from a live non-DSO
\* file, DSO-defined, archive-lazy, undefined.
DefRank(f, s) ==
  IF f = 0 THEN 5
  ELSE IF rfiles[f].is_dso THEN 3
  ELSE IF ~is_alive[f] THEN 4
  ELSE IF rfiles[f].defs[s] = "strong" THEN 1
  ELSE 2

\* A variant that breaks ties in favour of the larger priority.
DominatesLargerPriority(f, cur, s) ==
  \/ DefRank(f, s) < DefRank(cur, s)
  \/ DefRank(f, s) = DefRank(cur, s) /\ cur # 0 /\ RPriority(f) > RPriority(cur)

\* File f's definition of s dominates the incumbent owner cur: a stronger
\* class, or the same class and a smaller priority.
Dominates(f, cur, s) ==
  \/ DefRank(f, s) < DefRank(cur, s)
  \/ DefRank(f, s) = DefRank(cur, s) /\ cur # 0 /\ RPriority(f) < RPriority(cur)

RegTaskAt(f, i) ==
  IF i > Len(DefSeq(f)) THEN [i |-> i, pc |-> "done", cur |-> 0]
  ELSE [i |-> i, pc |-> "load", cur |-> 0]

ResolveStart ==
  /\ rfiles \in [1..NRFiles -> RFileShapes]
  /\ owner = [s \in Syms |-> 0]
  /\ rt = [f \in RFiles |-> RegTaskAt(f, 1)]
  /\ is_alive = [f \in RFiles |-> ~rfiles[f].in_archive]
  /\ fed = {}
  /\ nfed = [f \in RFiles |-> 0]
  /\ tr = [f \in RFiles |-> 0]
  /\ rphase = "register"
  /\ file_list = [i \in 1..NRFiles |-> i]

\* ObjectFile::resolve_symbols, reading the owner of the next definition.
RegLoad(f) ==
  /\ rphase = "register"
  /\ rt[f].pc = "load"
  /\ LET s == DefSeq(f)[rt[f].i]
     IN  rt' = [rt EXCEPT ![f] =
                  IF Dominates(f, owner[s], s)
                  THEN [@ EXCEPT !.pc = "cas", !.cur = owner[s]]
                  ELSE RegTaskAt(f, rt[f].i + 1)]
  /\ UNCHANGED <<rfiles, owner, is_alive, fed, nfed, tr, rphase, file_list, notResolve>>

\* ObjectFile::resolve_symbols, the compare-and-swap of the owner; on failure
\* the owner is read again and the dominance re-evaluated.
RegCas(f) ==
  /\ rphase = "register"
  /\ rt[f].pc = "cas"
  /\ LET s == DefSeq(f)[rt[f].i]
     IN  IF owner[s] = rt[f].cur
         THEN /\ owner' = [owner EXCEPT ![s] = f]
              /\ rt' = [rt EXCEPT ![f] = RegTaskAt(f, rt[f].i + 1)]
         ELSE /\ owner' = owner
              /\ rt' = [rt EXCEPT ![f] =
                          IF Dominates(f, owner[s], s)
                          THEN [@ EXCEPT !.cur = owner[s]]
                          ELSE RegTaskAt(f, rt[f].i + 1)]
  /\ UNCHANGED <<rfiles, is_alive, fed, nfed, tr, rphase, file_list, notResolve>>

\* A variant in which every file is a root, alive or not.
RootsEveryFile == RFiles

\* root: the files with is_alive && !is_dso.
Roots == {f \in RFiles : is_alive[f] /\ ~rfiles[f].is_dso}

\* The registration tasks have all returned; the roots are collected and
\* handed to parallel_do.
StartMark ==
  /\ rphase = "register"
  /\ \A f \in RFiles : rt[f].pc = "done"
  /\ fed' = Roots
  /\ nfed' = [f \in RFiles |-> IF f \in Roots THEN 1 ELSE 0]
  /\ rphase' = "mark"
  /\ UNCHANGED <<rfiles, owner, rt, is_alive, tr, file_list, notResolve>>

\* ObjectFile::mark_live_archive_members, one undefined symbol of a file that
\* is being traversed: if the symbol's defining file is an archive member that
\* is not alive, flip it to alive (atomic exchange) and feed it.
MarkStep(f) ==
  /\ rphase = "mark"
  /\ f \in fed
  /\ tr[f] < Len(UndefSeq(f))
  /\ LET o == owner[UndefSeq(f)[tr[f] + 1]]
     IN  IF o # 0 /\ rfiles[o].in_archive /\ ~is_alive[o]
         THEN /\ is_alive' = [is_alive EXCEPT ![o] = TRUE]
              /\ fed' = fed \cup {o}
              /\ nfed' = [nfed EXCEPT ![o] = @ + 1]
         ELSE UNCHANGED <<is_alive, fed, nfed>>
  /\ tr' = [tr EXCEPT ![f] = @ + 1]
  /\ UNCHANGED <<rfiles, owner, rt, rphase, file_list, notResolve>>

\* A variant that drops every archive member.
KeptPrimaryOnly(f) == ~rfiles[f].in_archive

\* remove_if's predicate negated: the file stays in the list.
Kept(f) == is_alive[f]

\* The elements of a sequence that satisfy Kept, in their order.
RECURSIVE EraseDead(_)
EraseDead(fs) ==
  IF fs = << >> THEN << >>
  ELSE IF Kept(Head(fs)) THEN <<Head(fs)>> \o EraseDead(Tail(fs))
  ELSE EraseDead(Tail(fs))

\* parallel_do has drained; files.erase(remove_if(... !is_alive ...)).  The
\* undefined-weak fixup that follows binds symbol values only.
EraseUnused ==
  /\ rphase = "mark"
  /\ \A f \in fed : tr[f] = Len(UndefSeq(f))
  /\ file_list' = EraseDead(file_list)
  /\ rphase' = "done"
  /\ UNCHANGED <<rfiles, owner, rt, is_alive, fed, nfed, tr, notResolve>>

ResolveNext ==
  \/ \E f \in RFiles : RegLoad(f)
  \/ \E f \in RFiles : RegCas(f)
  \/ StartMark
  \/ \E f \in RFiles : MarkStep(f)
  \/ EraseUnused

ResolveInit == ResolveStart /\ MergeIdle /\ ComdatIdle /\ BinIdle /\ IsecIdle /\ ScanIdle /\ OsecIdle /\ RankIdle /\ ChunksIdle /\ SymtabIdle /\ PriorityIdle /\ Pass2Idle /\ PadIdle /\ WriterIdle

SpecResolve == ResolveInit /\ [][ResolveNext]_vars

\* The owners after file f has registered its definitions from the i-th on.
RECURSIVE RegisterFile(_, _, _)
RegisterFile(f, i, own) ==
  IF i > Len(DefSeq(f)) THEN own
  ELSE LET s == DefSeq(f)[i]
       IN  RegisterFile(f, i + 1,
                        [own EXCEPT ![s] = IF Dominates(f, @, s) THEN f ELSE @])

\* The owners after the files f.. have registered, one after the other.
RECURSIVE RegisterAll(_, _)
RegisterAll(f, own) ==
  IF f \notin RFiles THEN own
  ELSE RegisterAll(f + 1, RegisterFile(f, 1, own))

\* The state when the registration tasks have returned.
ArchiveStart ==
  /\ rfiles \in [1..NAFiles -> RFileShapes]
  /\ is_alive = [f \in RFiles |-> ~rfiles[f].in_archive]
  /\ owner = RegisterAll(1, [s \in Syms |-> 0])
  /\ rt = [f \in RFiles |-> [i |-> Len(DefSeq(f)) + 1, pc |-> "done", cur |-> 0]]
  /\ fed = {}
  /\ nfed = [f \in RFiles |-> 0]
  /\ tr = [f \in RFiles |-> 0]
  /\ rphase = "register"
  /\ file_list = [i \in 1..NAFiles |-> i]

ArchiveNext ==
  \/ StartMark
  \/ \E f \in RFiles : MarkStep(f)
  \/ EraseUnused

ArchiveInit == ArchiveStart /\ MergeIdle /\ ComdatIdle /\ BinIdle /\ IsecIdle /\ ScanIdle /\ OsecIdle /\ RankIdle /\ ChunksIdle /\ SymtabIdle /\ PriorityIdle /\ Pass2Idle /\ PadIdle /\ WriterIdle

SpecArchive == ArchiveInit /\ [][ArchiveNext]_vars

\* parallel_do runs every item that was fed until the item returns, so a
\* traversal step that stays possible is eventually taken.
SpecArchiveFair == ArchiveInit /\ [][ArchiveNext]_vars /\ WF_vars(ArchiveNext)

\* The owners the interleaved registration tasks leave are those of the
\* registration run file by file.
RegistrationIsSequential ==
  (rphase = "register" /\ \A f \in RFiles : rt[f].pc = "done")
    => owner = RegisterAll(1, [s \in Syms |-> 0])

\* ---- properties of resolve_symbols ----

InList(f) == \E i \in 1..Len(file_list) : file_list[i] = f

\* The strong definers of s among the files that survive, shared objects excluded.
StrongSurvivors(s) ==
  {f \in RFiles : InList(f) /\ ~rfiles[f].is_dso /\ rfiles[f].defs[s] = "strong"}

\* The strong definers of s among the primary relocatable files.
StrongPrimaries(s) ==
  {f \in RFiles : ~rfiles[f].in_archive /\ ~rfiles[f].is_dso /\ rfiles[f].defs[s] = "strong"}

Pulls(f) ==
  {owner[s] : s \in rfiles[f].undefs} \cap {g \in RFiles : rfiles[g].in_archive}

\* The files reachable from the set R through Pulls.
RECURSIVE ReachFrom(_)
ReachFrom(R) ==
  LET more == R \cup UNION {Pulls(f) : f \in R}
  IN  IF more = R THEN R ELSE ReachFrom(more)

PrimaryFiles == {f \in RFiles : ~rfiles[f].in_archive}

\* The files that are to survive: the primary files, and the archive members
\* reachable from a primary non-DSO file.
LiveSet == PrimaryFiles \cup ReachFrom({f \in PrimaryFiles : ~rfiles[f].is_dso})

\* C3: after resolve_symbols the file list holds exactly the primary files and
\* the archive members reachable from a live non-DSO file through undefined
\* references defined by archive members, in their original relative order.
C3_SurvivingFiles ==
  rphase = "done" =>
    /\ {file_list[i] : i \in 1..Len(file_list)} = LiveSet
    /\ \A i, j \in 1..Len(file_list) : i < j => file_list[i] < file_list[j]

\* resolve_symbols has returned; an archive member was pulled in by another
\* archive member only, and another archive member was dropped.
C3_Witness ==
  /\ rphase = "done"
  /\ \E m \in RFiles :
       /\ rfiles[m].in_archive
       /\ InList(m)
       /\ \A f \in PrimaryFiles : m \notin Pulls(f)
  /\ \E m \in RFiles : rfiles[m].in_archive /\ ~InList(m)

\* Every input is an archive member and none was pulled in: the erase has
\* left the file list empty.
AllInputsDropped ==
  /\ rphase = "done"
  /\ \A f \in RFiles : rfiles[f].in_archive
  /\ file_list = << >>

\* No file was handed to parallel_do more than once.
FedOnce == \A f \in DOMAIN nfed : nfed[f] <= 1

\* C20: the archive pull-in traversal processes each file at most once, and
\* it terminates for every file set, reference cycles between archive
\* members included.
C20_TraversalTerminates == []FedOnce /\ <>(rphase = "done")

\* The traversal has returned after it fed two archive members that refer
\* to each other, each of them once.
C20_Witness ==
  /\ rphase = "done"
  /\ \E a, b \in RFiles :
       /\ a # b
       /\ rfiles[a].in_archive /\ rfiles[b].in_archive
       /\ a \in Pulls(b) /\ b \in Pulls(a)
       /\ nfed[a] = 1 /\ nfed[b] = 1
       /\ tr[a] = Len(UndefSeq(a)) /\ tr[b] = Len(UndefSeq(b))

\* ========================================================================
\* eliminate_comdats
\* ========================================================================

\* The COMDAT signatures of the link.
Sigs == {1, 2}

CGroup(sig, mem) == [sig |-> sig, members |-> mem]

\* The COMDAT group lists a file may have; the members are indices into the
\* file's input sections, which are not null when the pass starts.
GroupShapes ==
  { << >>,
    << CGroup(1, {1}) >>,
    << CGroup(1, {1, 2}) >>,
    << CGroup(2, {1}), CGroup(1, {2}) >>,
    << CGroup(1, {1}), CGroup(2, {2}) >> }

CPriority(f) == SetPriorities([g \in Files |-> cfiles[g].in_archive])[f]

NGroups(f) == Len(cfiles[f].groups)

ClaimTaskAt(f, i) ==
  IF i > NGroups(f) THEN [i |-> i, pc |-> "done", cur |-> 0]
  ELSE [i |-> i, pc |-> "load", cur |-> 0]

\* The claim of file f is accepted against the incumbent cur: no incumbent, or
\* a strictly lower priority than the incumbent's.
ClaimWins(f, cur) == cur = 0 \/ CPriority(f) < CPriority(cur)

ComdatStart ==
  /\ cfiles \in [Files -> [in_archive : BOOLEAN, groups : GroupShapes]]
  /\ comdat_owner = [g \in Sigs |-> 0]
  /\ ct = [f \in Files |-> ClaimTaskAt(f, 1)]
  /\ et = [f \in Files |-> 1]
  /\ sec_live = [f \in Files |-> UNION {cfiles[f].groups[i].members : i \in 1..NGroups(f)}]

\* ObjectFile::resolve_comdat_groups, reading the owner of the next signature.
ClaimLoad(f) ==
  /\ ct[f].pc = "load"
  /\ LET g == cfiles[f].groups[ct[f].i].sig
     IN  ct' = [ct EXCEPT ![f] =
                  IF ClaimWins(f, comdat_owner[g])
                  THEN [@ EXCEPT !.pc = "cas", !.cur = comdat_owner[g]]
                  ELSE ClaimTaskAt(f, ct[f].i + 1)]
  /\ UNCHANGED <<cfiles, comdat_owner, et, sec_live, notComdat>>

\* ObjectFile::resolve_comdat_groups, the compare-and-swap into the map.
ClaimCas(f) ==
  /\ ct[f].pc = "cas"
  /\ LET g == cfiles[f].groups[ct[f].i].sig
     IN  IF comdat_owner[g] = ct[f].cur
         THEN /\ comdat_owner' = [comdat_owner EXCEPT ![g] = f]
              /\ ct' = [ct EXCEPT ![f] = ClaimTaskAt(f, ct[f].i + 1)]
         ELSE /\ comdat_owner' = comdat_owner
              /\ ct' = [ct EXCEPT ![f] =
                          IF ClaimWins(f, comdat_owner[g])
                          THEN [@ EXCEPT !.cur = comdat_owner[g]]
                          ELSE ClaimTaskAt(f, ct[f].i + 1)]
  /\ UNCHANGED <<cfiles, et, sec_live, notComdat>>

\* A variant without the barrier between the two passes.
ClaimsFinishedNoBarrier == TRUE

\* The first parallel_for_each of eliminate_comdats has returned.
ClaimsFinished == \A f \in Files : ct[f].pc = "done"

\* ObjectFile::eliminate_duplicate_comdat_groups, one group of file f: the
\* member slots of a group the file did not win are nulled out.
Eliminate(f) ==
  /\ ClaimsFinished
  /\ et[f] <= NGroups(f)
  /\ LET grp == cfiles[f].groups[et[f]]
     IN  sec_live' = [sec_live EXCEPT ![f] =
                        IF comdat_owner[grp.sig] = f THEN @ ELSE @ \ grp.members]
  /\ et' = [et EXCEPT ![f] = @ + 1]
  /\ UNCHANGED <<cfiles, comdat_owner, ct, notComdat>>

ComdatFinished ==
  /\ \A f \in Files : ct[f].pc = "done"
  /\ \A f \in Files : et[f] > NGroups(f)

ComdatNext ==
  \/ \E f \in Files : ClaimLoad(f)
  \/ \E f \in Files : ClaimCas(f)
  \/ \E f \in Files : Eliminate(f)

ComdatInit == ComdatStart /\ MergeIdle /\ ResolveIdle /\ BinIdle /\ IsecIdle /\ ScanIdle /\ OsecIdle /\ RankIdle /\ ChunksIdle /\ SymtabIdle /\ PriorityIdle /\ Pass2Idle /\ PadIdle /\ WriterIdle

SpecComdat == ComdatInit /\ [][ComdatNext]_vars

\* ---- properties of eliminate_comdats ----

\* The files that list signature g.
Listing(g) == {f \in Files : \E i \in 1..NGroups(f) : cfiles[f].groups[i].sig = g}

\* The files that still hold a live section of a group with signature g.
HoldingLive(g) ==
  {f \in Files : \E i \in 1..NGroups(f) :
      /\ cfiles[f].groups[i].sig = g
      /\ cfiles[f].groups[i].members \cap sec_live[f] # {}}

\* C4: after eliminate_comdats, under every interleaving of the claims, for
\* each signature listed by several files exactly one file still holds live
\* sections of the group: the file of the lowest priority among those listing it.
C4_OneComdatKeeper ==
  ComdatFinished =>
    \A g \in Sigs :
      Cardinality(Listing(g)) >= 2 =>
        \E w \in Listing(g) :
          /\ HoldingLive(g) = {w}
          /\ \A f \in Listing(g) : CPriority(w) <= CPriority(f)

\* Both passes are over and a signature listed by both files is kept by the
\* second file of the list, an earlier claim of the first file overridden or
\* refused.
C4_Witness ==
  /\ ComdatFinished
  /\ \E g \in Sigs :
       /\ {1, 2} \subseteq Listing(g)
       /\ HoldingLive(g) = {2}

\* ========================================================================
\* split and bin_sections
\* ========================================================================

\* OutputSection::instances, by idx.
OsecIds == {1, 2}

\* The `sections' vectors that occur: the output section of every input
\* section, 0 for a null slot.
SectionShapes == { << >>, <<1>>, <<2, 1>>, <<1, 0, 1>>, <<0, 2>> }

\* The sequences over S of length n.
SeqsOfLen(S, n) == [1..n -> S]

\* split(input, unit) for unit >= 1: slices of unit elements, then the rest if
\* it is not empty.  With unit = 0 the loop condition arr.size() >= unit never
\* fails and the function does not return.
RECURSIVE Split(_, _)
Split(input, unit) ==
  IF Len(input) >= unit
  THEN <<SubSeq(input, 1, unit)>> \o Split(SubSeq(input, unit + 1, Len(input)), unit)
  ELSE IF input # << >> THEN <<input>> ELSE << >>

\* int unit = (files.size() + 127) / 128, with NumShards for 128.
ShardUnit(n) == (n + (NumShards - 1)) \div NumShards

BinStart ==
  /\ bfiles \in UNION {SeqsOfLen(SectionShapes, n) : n \in 0..NBFiles}
  /\ bphase = "start"
  /\ slices = << >>
  /\ groups = << >>
  /\ bt = << >>
  /\ ot = [j \in OsecIds |-> 0]
  /\ members = [j \in OsecIds |-> << >>]

\* bin_sections up to the first parallel_for: unit, the slices and the empty
\* groups.  With an empty file list unit is 0 and split does not return.
BinSplit ==
  /\ bphase = "start"
  /\ IF ShardUnit(Len(bfiles)) = 0
     THEN /\ bphase' = "spin"
          /\ UNCHANGED <<slices, groups, bt>>
     ELSE /\ bphase' = "shards"
          /\ slices' = Split([i \in 1..Len(bfiles) |-> i], ShardUnit(Len(bfiles)))
          /\ groups' = [i \in 1..Len(slices') |-> [j \in OsecIds |-> << >>]]
          /\ bt' = [i \in 1..Len(slices') |-> 0]
  /\ UNCHANGED <<bfiles, ot, members, notBin>>

\* split's loop with unit = 0: arr.size() >= unit holds for ever and every
\* iteration pushes one more empty slice (counted up to NumShards + 1).
SplitSpin ==
  /\ bphase = "spin"
  /\ Len(slices) <= NumShards
  /\ slices' = Append(slices, << >>)
  /\ UNCHANGED <<bfiles, bphase, groups, bt, ot, members, notBin>>

\* groups[i] after the sections s.. of file f were pushed.
RECURSIVE BinFile(_, _, _)
BinFile(f, s, grp) ==
  IF s > Len(bfiles[f]) THEN grp
  ELSE BinFile(f, s + 1,
               IF bfiles[f][s] = 0 THEN grp
               ELSE [grp EXCEPT ![bfiles[f][s]] = Append(@, <<f, s>>)])

\* The task of shard i, one file: every non-null section is pushed to
\* groups[i][osec->idx].
ShardStep(i) ==
  /\ bphase = "shards"
  /\ i \in 1..Len(slices)
  /\ bt[i] < Len(slices[i])
  /\ groups' = [groups EXCEPT ![i] = BinFile(slices[i][bt[i] + 1], 1, @)]
  /\ bt' = [bt EXCEPT ![i] = @ + 1]
  /\ UNCHANGED <<bfiles, bphase, slices, ot, members, notBin>>

\* A variant without the barrier after the shard tasks.
ShardsFinishedNoBarrier == bphase = "shards"

\* The first parallel_for has returned: every shard task is done.
ShardsFinished ==
  /\ bphase = "shards"
  /\ \A i \in 1..Len(slices) : bt[i] = Len(slices[i])

\* The task of output section j, one shard: groups[i][j] is appended to the
\* members, for i in increasing order.
ConcatStep(j) ==
  /\ ShardsFinished
  /\ ot[j] < Len(groups)
  /\ members' = [members EXCEPT ![j] = @ \o groups[ot[j] + 1][j]]
  /\ ot' = [ot EXCEPT ![j] = @ + 1]
  /\ UNCHANGED <<bfiles, bphase, slices, groups, bt, notBin>>

BinFinished ==
  /\ bphase = "shards"
  /\ \A i \in 1..Len(slices) : bt[i] = Len(slices[i])
  /\ \A j \in OsecIds : ot[j] = Len(groups)

BinNext ==
  \/ BinSplit
  \/ SplitSpin
  \/ \E i \in 1..NBFiles : ShardStep(i)
  \/ \E j \in OsecIds : ConcatStep(j)

BinInit == BinStart /\ MergeIdle /\ ResolveIdle /\ ComdatIdle /\ IsecIdle /\ ScanIdle /\ OsecIdle /\ RankIdle /\ ChunksIdle /\ SymtabIdle /\ PriorityIdle /\ Pass2Idle /\ PadIdle /\ WriterIdle

SpecBin == BinInit /\ [][BinNext]_vars

\* ---- properties of bin_sections ----

\* The non-null input sections bound for output section j, in file-list order
\* and, within a file, in section order.
RECURSIVE InOrder(_, _, _)
InOrder(j, f, s) ==
  IF f > Len(bfiles) THEN << >>
  ELSE IF s > Len(bfiles[f]) THEN InOrder(j, f + 1, 1)
  ELSE IF bfiles[f][s] = j THEN <<(<<f, s>>)>> \o InOrder(j, f, s + 1)
  ELSE InOrder(j, f, s + 1)

\* The number of positions of the sequence q that hold x.
Occurrences(q, x) == Cardinality({n \in 1..Len(q) : q[n] = x})

\* For a file list that is not empty split returns, with at most NumShards
\* slices that hold every file once, in order.
NonEmptyListIsSplit ==
  (Len(bfiles) > 0 /\ bphase # "start") =>
    /\ bphase = "shards"
    /\ Len(slices) <= NumShards
    /\ \A i \in 1..Len(slices) : slices[i] # << >>

\* C25: bin_sections terminates and produces at most 128 shards (NumShards
\* here) for every length of the file list, the empty list included: split
\* is never in a loop whose condition cannot fail, and the number of slices
\* stays within the bound.
C25_BinTerminates ==
  /\ bphase # "spin"
  /\ Len(slices) <= NumShards

\* C7: after bin_sections, however the shard tasks and the output-section
\* tasks interleave, every non-null input section occurs exactly once in the
\* members of its own output section and in no other list, and every list is
\* in file-list order, then section order within a file.
C7_MembersInFileOrder ==
  BinFinished =>
    /\ \A f \in 1..Len(bfiles) : \A s \in 1..Len(bfiles[f]) : \A j \in OsecIds :
         Occurrences(members[j], <<f, s>>) = (IF bfiles[f][s] = j THEN 1 ELSE 0)
    /\ \A j \in OsecIds : members[j] = InOrder(j, 1, 1)

\* bin_sections is over with two shards, the first of two files, and an
\* output section has members from both shards.
C7_Witness ==
  /\ BinFinished
  /\ Len(slices) = 2
  /\ Len(slices[1]) = 2
  /\ \E j \in OsecIds :
       /\ groups[1][j] # << >>
       /\ groups[2][j] # << >>
       /\ Len(members[j]) >= 3

\* ========================================================================
\* set_isec_offsets
\* ========================================================================

\* The bitwise and of two naturals.
RECURSIVE BitAnd(_, _)
BitAnd(x, y) ==
  IF x = 0 \/ y = 0 THEN 0
  ELSE (x % 2) * (y % 2) + 2 * BitAnd(x \div 2, y \div 2)

\* align_to(val, align): (val + align - 1) & ~(align - 1).
AlignTo(val, align) == (val + align - 1) - BitAnd(val + align - 1, align - 1)

IMember(size, align) == [size |-> size, align |-> align]

\* The sh_size and sh_addralign (a power of two) of the members that occur.
MemberShapes ==
  { IMember(0, 1), IMember(1, 1), IMember(3, 4), IMember(5, 8), IMember(8, 8),
    IMember(2, 16) }

\* The members of slice i (slices of SliceUnit members, by split).
ISlices == Split([n \in 1..Len(imembers) |-> n], SliceUnit)

IsecStart ==
  /\ imembers \in UNION {SeqsOfLen(MemberShapes, n) : n \in 0..MaxMembers}
  /\ ioffset = [n \in 1..Len(imembers) |-> -1]
  /\ iphase = "slices"
  /\ islice_done = {}
  /\ isize = [i \in 1..Len(ISlices) |-> 0]
  /\ ialign = [i \in 1..Len(ISlices) |-> 0]
  /\ istart = [i \in 1..Len(ISlices) |-> 0]
  /\ osec_size = 0
  /\ osec_align = 1

\* The first loop over the members ms of a slice: <<offsets, off, align>>.
RECURSIVE SliceWalk(_, _, _, _)
SliceWalk(ms, offs, off, align) ==
  IF ms = << >> THEN <<offs, off, align>>
  ELSE LET m == Head(ms)
       IN  SliceWalk(Tail(ms),
                     [offs EXCEPT ![m] = AlignTo(off, imembers[m].align)],
                     AlignTo(off, imembers[m].align) + imembers[m].size,
                     Max(align, imembers[m].align))

\* The first parallel_for, slice i: offsets from 0 within the slice, the
\* slice's size and its largest alignment.
SliceOffsets(i) ==
  /\ iphase = "slices"
  /\ i \in 1..Len(ISlices)
  /\ i \notin islice_done
  /\ LET res == SliceWalk(ISlices[i], ioffset, 0, 1)
     IN  /\ ioffset' = res[1]
         /\ isize' = [isize EXCEPT ![i] = res[2]]
         /\ ialign' = [ialign EXCEPT ![i] = res[3]]
  /\ islice_done' = islice_done \cup {i}
  /\ UNCHANGED <<imembers, iphase, istart, osec_size, osec_align, notIsec>>

\* The largest element of a non-empty sequence of numbers.
MaxElement(q) == CHOOSE x \in {q[n] : n \in 1..Len(q)} : \A n \in 1..Len(q) : q[n] <= x

\* A variant that packs the slices without aligning their starts.
RECURSIVE SliceStartUnaligned(_, _)
SliceStartUnaligned(i, align) ==
  IF i = 1 THEN 0
  ELSE SliceStartUnaligned(i - 1, align) + isize[i - 1]

\* start[i] = align_to(start[i - 1] + size[i - 1], align), start[0] = 0.
RECURSIVE SliceStart(_, _)
SliceStart(i, align) ==
  IF i = 1 THEN 0
  ELSE AlignTo(SliceStart(i - 1, align) + isize[i - 1], align)

\* After the first parallel_for: the maximum alignment and the slice starts.
\* An output section without members is left as it is.
SliceStarts ==
  /\ iphase = "slices"
  /\ islice_done = 1..Len(ISlices)
  /\ IF imembers = << >>
     THEN /\ iphase' = "done"
          /\ UNCHANGED <<istart, osec_align>>
     ELSE /\ iphase' = "shift"
          /\ istart' = [i \in 1..Len(ISlices) |-> SliceStart(i, MaxElement(ialign))]
          /\ osec_align' = MaxElement(ialign)
  /\ islice_done' = {}
  /\ UNCHANGED <<imembers, ioffset, isize, ialign, osec_size, notIsec>>

\* The second parallel_for, slice i >= 2: isec->offset += start[i].
SliceShift(i) ==
  /\ iphase = "shift"
  /\ i \in 2..Len(ISlices)
  /\ i \notin islice_done
  /\ ioffset' = [n \in 1..Len(imembers) |->
                   IF \E x \in 1..Len(ISlices[i]) : ISlices[i][x] = n
                   THEN ioffset[n] + istart[i] ELSE ioffset[n]]
  /\ islice_done' = islice_done \cup {i}
  /\ UNCHANGED <<imembers, iphase, isize, ialign, istart, osec_size, osec_align, notIsec>>

\* osec->shdr.sh_size = start.back() + size.back(); sh_addralign = align.
SetOsecSize ==
  /\ iphase = "shift"
  /\ islice_done = 2..Len(ISlices)
  /\ osec_size' = istart[Len(ISlices)] + isize[Len(ISlices)]
  /\ iphase' = "done"
  /\ UNCHANGED <<imembers, ioffset, islice_done, isize, ialign, istart, osec_align, notIsec>>

IsecNext ==
  \/ \E i \in 1..(MaxMembers + 1) : SliceOffsets(i)
  \/ SliceStarts
  \/ \E i \in 1..(MaxMembers + 1) : SliceShift(i)
  \/ SetOsecSize

IsecInit == IsecStart /\ MergeIdle /\ ResolveIdle /\ ComdatIdle /\ BinIdle /\ ScanIdle /\ OsecIdle /\ RankIdle /\ ChunksIdle /\ SymtabIdle /\ PriorityIdle /\ Pass2Idle /\ PadIdle /\ WriterIdle

SpecIsec == IsecInit /\ [][IsecNext]_vars

\* ---- properties of set_isec_offsets ----

MemberRange(n) == ioffset[n] .. (ioffset[n] + imembers[n].size - 1)

\* C6: after set_isec_offsets, for an output section with members of
\* power-of-two alignment, in one slice or several: every member's offset is a
\* multiple of its alignment, the ranges of two members do not overlap, every
\* range lies inside [0, sh_size), and sh_addralign is the largest member
\* alignment.
C6_MemberOffsets ==
  (iphase = "done" /\ imembers # << >>) =>
    /\ \A n \in 1..Len(imembers) :
         /\ ioffset[n] >= 0
         /\ ioffset[n] % imembers[n].align = 0
         /\ ioffset[n] + imembers[n].size <= osec_size
    /\ \A n, k \in 1..Len(imembers) :
         n # k => MemberRange(n) \cap MemberRange(k) = {}
    /\ \A n \in 1..Len(imembers) : imembers[n].align <= osec_align
    /\ \E n \in 1..Len(imembers) : imembers[n].align = osec_align

\* The output section is laid out in two slices, and a member of the second
\* slice needed padding: its alignment is larger than the first slice's.
C6_Witness ==
  /\ iphase = "done"
  /\ Len(ISlices) >= 2
  /\ isize[1] > 0
  /\ istart[2] > isize[1]
  /\ \E n \in 1..Len(imembers) : ioffset[n] >= istart[2] /\ imembers[n].size > 0

\* ------------------------------------------------------------------------
\* scan_rels: slot assignment and the prefix sums of the synthetic tables
\* ------------------------------------------------------------------------

\* Size of a GOT or GOTPLT entry.
GOT_SIZE == 8

\* Size of a PLT entry.
PLT_SIZE == 16

\* sizeof(ELF64LE::Rela).
RelaSize == 24

RelKinds == {"GOT", "PLT", "TLSGD", "TLSLD", "GOTTP"}

\* A symbol of a file's symbol list: the bits of sym->rels left by the
\* relocation scan, whether its type is STT_GNU_IFUNC, and whether
\* sym->file is the file that lists it.
SSym(rels, ifunc, own) == [rels |-> rels, ifunc |-> ifunc, own |-> own]

\* The symbol lists a file is drawn from.
SymbolShapes ==
  { << >>,
    << SSym({"GOT"}, FALSE, TRUE), SSym({"PLT"}, TRUE, TRUE) >>,
    << SSym({"GOT", "PLT"}, FALSE, TRUE), SSym({"PLT"}, FALSE, TRUE),
       SSym({"GOTTP"}, FALSE, TRUE) >>,
    << SSym({"GOT", "GOTTP"}, FALSE, TRUE), SSym({"GOT", "PLT"}, FALSE, FALSE),
       SSym({"GOT", "PLT"}, TRUE, TRUE) >>,
    << SSym({"TLSGD"}, FALSE, TRUE), SSym({"GOT"}, FALSE, TRUE) >>,
    << SSym({"TLSLD"}, FALSE, TRUE), SSym({"GOTTP"}, FALSE, TRUE) >>,
    << SSym({"TLSGD", "TLSLD", "GOTTP"}, FALSE, TRUE) >>,
    << SSym({"PLT"}, TRUE, TRUE), SSym({"PLT"}, FALSE, TRUE),
       SSym({"GOT"}, FALSE, TRUE) >> }

NoSlots ==
  [got_idx |-> -1, plt_idx |-> -1, gotplt_idx |-> -1, relplt_idx |-> -1,
   gottp_idx |-> -1, gotgd_idx |-> -1, gotld_idx |-> -1]

NoCounts ==
  [num_got |-> 0, num_plt |-> 0, num_gotplt |-> 0, num_relplt |-> 0,
   num_reldyn |-> 0]

Tables == {"got", "gotplt", "plt", "relplt", "reldyn"}

\* The sizes the tables can have when scan_rels is entered: empty tables, or
\* .got.plt and .plt with their reserved leading entries.
TableStarts ==
  { [t \in Tables |-> 0],
    [t \in Tables |-> IF t = "gotplt" THEN 3 * GOT_SIZE
                      ELSE IF t = "plt" THEN PLT_SIZE ELSE 0] }

ScanStart ==
  /\ is_static \in BOOLEAN
  /\ sfiles \in [Files -> SymbolShapes]
  /\ slot = [f \in Files |-> [i \in 1..Len(sfiles[f]) |-> NoSlots]]
  /\ cnt = [f \in Files |-> NoCounts]
  /\ dynsyms = [f \in Files |-> << >>]
  /\ st = [f \in Files |-> 0]
  /\ sphase = "assign"
  /\ pf = 0
  /\ toff = [f \in Files |-> [t \in Tables |-> -1]]
  /\ tsize0 \in TableStarts
  /\ tsize = tsize0
  /\ dynsym_all = << >>
  /\ wt = [f \in Files |-> 0]
  /\ reldyn_idx = [f \in Files |-> 0]
  /\ written = {}

\* The body of scan_rels_static's loop for a symbol of the file: the slots and
\* counters it leaves, and whether it ends in error().
ScanStatic(sym, s0, c0) ==
  LET a1 == IF "GOT" \in sym.rels
            THEN [s |-> [s0 EXCEPT !.got_idx = c0.num_got],
                  c |-> [c0 EXCEPT !.num_got = @ + 1]]
            ELSE [s |-> s0, c |-> c0]
      a2 == IF "PLT" \in sym.rels /\ sym.ifunc
            THEN [s |-> [a1.s EXCEPT !.plt_idx = a1.c.num_plt,
                                     !.gotplt_idx = a1.c.num_gotplt,
                                     !.relplt_idx = a1.c.num_relplt],
                  c |-> [a1.c EXCEPT !.num_plt = @ + 1, !.num_gotplt = @ + 1,
                                     !.num_relplt = @ + 1]]
            ELSE a1
      err == "TLSGD" \in sym.rels \/ "TLSLD" \in sym.rels
      a3 == IF ~err /\ "GOTTP" \in sym.rels
            THEN [s |-> [a2.s EXCEPT !.gottp_idx = a2.c.num_got],
                  c |-> [a2.c EXCEPT !.num_got = @ + 1]]
            ELSE a2
  IN  [s |-> a3.s, c |-> a3.c, dyn |-> FALSE, err |-> err]

\* The body of scan_rels_dynamic's loop for a symbol of the file.
ScanDynamic(sym, s0, c0) ==
  LET a1 == IF "GOT" \in sym.rels
            THEN [s |-> [s0 EXCEPT !.got_idx = c0.num_got],
                  c |-> [c0 EXCEPT !.num_got = @ + 1, !.num_reldyn = @ + 1]]
            ELSE [s |-> s0, c |-> c0]
      a2 == IF "PLT" \in sym.rels
            THEN IF a1.s.got_idx = -1
                 THEN [s |-> [a1.s EXCEPT !.plt_idx = a1.c.num_plt,
                                          !.gotplt_idx = a1.c.num_gotplt,
                                          !.relplt_idx = a1.c.num_relplt],
                       c |-> [a1.c EXCEPT !.num_plt = @ + 1,
                                          !.num_gotplt = @ + 1,
                                          !.num_relplt = @ + 1]]
                 ELSE [s |-> [a1.s EXCEPT !.plt_idx = a1.c.num_plt],
                       c |-> [a1.c EXCEPT !.num_plt = @ + 1]]
            ELSE a1
      a3 == IF "TLSGD" \in sym.rels
            THEN [s |-> [a2.s EXCEPT !.gotgd_idx = a2.c.num_got],
                  c |-> [a2.c EXCEPT !.num_got = @ + 2, !.num_reldyn = @ + 2]]
            ELSE a2
      \* the TLSLD branch stores into gotgd_idx
      a4 == IF "TLSLD" \in sym.rels
            THEN [s |-> [a3.s EXCEPT !.gotgd_idx = a3.c.num_got],
                  c |-> [a3.c EXCEPT !.num_got = @ + 1, !.num_reldyn = @ + 1]]
            ELSE a3
      a5 == IF "GOTTP" \in sym.rels
            THEN [s |-> [a4.s EXCEPT !.gottp_idx = a4.c.num_got],
                  c |-> [a4.c EXCEPT !.num_got = @ + 1]]
            ELSE a4
  IN  [s |-> a5.s, c |-> a5.c,
       dyn |-> sym.rels \cap {"GOT", "PLT", "TLSGD", "TLSLD"} # {},
       err |-> FALSE]

\* One iteration of the symbol loop of file f's task.
ScanSymbol(f) ==
  /\ sphase = "assign"
  /\ st[f] < Len(sfiles[f])
  /\ LET i == st[f] + 1
         sym == sfiles[f][i]
         r == IF is_static THEN ScanStatic(sym, slot[f][i], cnt[f])
              ELSE ScanDynamic(sym, slot[f][i], cnt[f])
     IN  /\ st' = [st EXCEPT ![f] = i]
         /\ IF sym.own
            THEN /\ slot' = [slot EXCEPT ![f][i] = r.s]
                 /\ cnt' = [cnt EXCEPT ![f] = r.c]
                 /\ dynsyms' = [dynsyms EXCEPT ![f] = IF r.dyn THEN Append(@, i) ELSE @]
                 /\ sphase' = IF r.err THEN "error" ELSE sphase
            ELSE UNCHANGED <<slot, cnt, dynsyms, sphase>>
  /\ UNCHANGED <<is_static, sfiles, pf, toff, tsize, tsize0, dynsym_all, writeVars, notScan>>

\* The parallel_for_each has returned: every task has walked its symbol list.
AssignFinished == \A f \in Files : st[f] = Len(sfiles[f])

StartPrefix ==
  /\ sphase = "assign"
  /\ AssignFinished
  /\ sphase' = "prefix"
  /\ UNCHANGED <<is_static, sfiles, slot, cnt, dynsyms, st, pf, toff, tsize,
                 tsize0, dynsym_all, writeVars, notScan>>

\* A variant that reserves one byte per entry.
ReserveUnscaled(size, count, esize) == size + count

\* sh_size += count * entry size.
Reserve(size, count, esize) == size + count * esize

\* One iteration of the prefix-sum loop: the file's offsets are the sizes of the
\* tables so far, and the tables grow by the file's counts.  .rela.dyn exists
\* only in a dynamic link.
PrefixStep ==
  /\ sphase = "prefix"
  /\ pf < NFiles
  /\ LET f == pf + 1
     IN  /\ toff' = [toff EXCEPT ![f] =
                       [t \in Tables |->
                          IF t = "reldyn" /\ is_static THEN @[t] ELSE tsize[t]]]
         /\ tsize' =
              [got    |-> Reserve(tsize.got, cnt[f].num_got, GOT_SIZE),
               gotplt |-> Reserve(tsize.gotplt, cnt[f].num_gotplt, GOT_SIZE),
               plt    |-> Reserve(tsize.plt, cnt[f].num_plt, PLT_SIZE),
               relplt |-> Reserve(tsize.relplt, cnt[f].num_relplt, RelaSize),
               reldyn |-> IF is_static THEN tsize.reldyn
                          ELSE Reserve(tsize.reldyn, cnt[f].num_reldyn, RelaSize)]
         /\ pf' = f
  /\ UNCHANGED <<is_static, sfiles, slot, cnt, dynsyms, st, sphase, tsize0,
                 dynsym_all, writeVars, notScan>>

RECURSIVE DynsymList(_)
\* file->dynsyms of the first n files, in file order.
DynsymList(n) ==
  IF n = 0 THEN << >>
  ELSE DynsymList(n - 1) \o [k \in 1..Len(dynsyms[n]) |-> <<n, dynsyms[n][k]>>]

\* The loop that hands every file's dynsyms to out::dynsym.
AddDynsyms ==
  /\ sphase = "prefix"
  /\ pf = NFiles
  /\ dynsym_all' = DynsymList(NFiles)
  /\ sphase' = "done"
  /\ UNCHANGED <<is_static, sfiles, slot, cnt, dynsyms, st, pf, toff, tsize,
                 tsize0, writeVars, notScan>>

\* ---- write_got_plt ----

\* sizeof(ELF64LE::Sym), the factor of gotplt_idx in write_got_plt.
SymSize == 24

\* A store of write_got_plt: the table, the byte offset in it, what is stored,
\* for which symbol, and the addend of a relocation (0: none).
Store(tbl, off, kind, f, i, addend) ==
  [tbl |-> tbl, off |-> off, kind |-> kind, file |-> f, sym |-> i,
   addend |-> addend]

\* main() between scan_rels and write_got_plt: the layout is fixed and the
\* output file is mapped.
StartWrite ==
  /\ sphase = "done"
  /\ sphase' = "write"
  /\ UNCHANGED <<is_static, sfiles, slot, cnt, dynsyms, st, pf, toff, tsize,
                 tsize0, dynsym_all, writeVars, notScan>>

\* The stores for got_idx: the address in a static link, a GLOB_DAT
\* relocation at the file's next .rela.dyn position in a dynamic link.
GotStores(f, i) ==
  IF slot[f][i].got_idx = -1 THEN {}
  ELSE IF is_static
  THEN {Store("got", toff[f].got + slot[f][i].got_idx * GOT_SIZE, "ADDR", f, i, 0)}
  ELSE {Store("reldyn", toff[f].reldyn + reldyn_idx[f] * RelaSize, "GLOB_DAT", f, i, 0)}

\* A variant that leaves the slot of gottp_idx unwritten.
GottpStoresNone(f, i) == {}

\* The store for gottp_idx: the address minus tls_end.
GottpStores(f, i) ==
  IF slot[f][i].gottp_idx = -1 THEN {}
  ELSE {Store("got", toff[f].got + slot[f][i].gottp_idx * GOT_SIZE, "TPOFF", f, i, 0)}

\* A variant that refuses gotld_idx only.
WriteRefusesLdOnly(f, i) == slot[f][i].gotld_idx # -1

\* error("unimplemented") for a symbol with a gotgd_idx or a gotld_idx.
WriteRefuses(f, i) == slot[f][i].gotgd_idx # -1 \/ slot[f][i].gotld_idx # -1

\* out::plt->write_entry for a symbol with a plt_idx.
PltStores(f, i) ==
  IF slot[f][i].plt_idx = -1 THEN {}
  ELSE {Store("plt", toff[f].plt + slot[f][i].plt_idx * PLT_SIZE, "PLT_ENTRY", f, i, 0)}

\* A variant that writes JUMP_SLOT for every symbol.
RelpltKindJumpSlot(sym) == "JUMP_SLOT"

\* The relocation type of a .rela.plt entry.
RelpltKind(sym) == IF sym.ifunc THEN "IRELATIVE" ELSE "JUMP_SLOT"

\* The stores for relplt_idx: the .rela.plt entry and, for a symbol that is
\* not an IFUNC, plt_addr + 6 at gotplt_buf + gotplt_idx * sizeof(ELF64LE::Sym).
RelpltStores(f, i) ==
  IF slot[f][i].relplt_idx = -1 THEN {}
  ELSE {Store("relplt", toff[f].relplt + slot[f][i].relplt_idx * RelaSize,
              RelpltKind(sfiles[f][i]), f, i,
              IF sfiles[f][i].ifunc THEN <<"addr", f, i>> ELSE 0)}
       \cup (IF sfiles[f][i].ifunc THEN {}
             ELSE {Store("gotplt", toff[f].gotplt + slot[f][i].gotplt_idx * SymSize,
                         "PLT_ADDR_PLUS_6", f, i, 0)})

\* One iteration of the symbol loop of file f's task in write_got_plt.
WriteSymbol(f) ==
  /\ sphase = "write"
  /\ wt[f] < Len(sfiles[f])
  /\ LET i == wt[f] + 1
     IN  /\ wt' = [wt EXCEPT ![f] = i]
         /\ IF ~sfiles[f][i].own
            THEN UNCHANGED <<written, reldyn_idx, sphase>>
            ELSE /\ reldyn_idx' =
                      [reldyn_idx EXCEPT ![f] =
                         IF slot[f][i].got_idx # -1 /\ ~is_static THEN @ + 1 ELSE @]
                 /\ IF WriteRefuses(f, i)
                    THEN /\ written' = written \cup GotStores(f, i) \cup GottpStores(f, i)
                         /\ sphase' = "error"
                    ELSE /\ written' = written \cup GotStores(f, i) \cup GottpStores(f, i)
                                         \cup PltStores(f, i) \cup RelpltStores(f, i)
                         /\ sphase' = sphase
  /\ UNCHANGED <<is_static, sfiles, slot, cnt, dynsyms, st, pf, toff, tsize,
                 tsize0, dynsym_all, notScan>>

\* The parallel_for_each of write_got_plt has returned.
GotPltWritten ==
  /\ sphase = "write"
  /\ \A f \in Files : wt[f] = Len(sfiles[f])
  /\ sphase' = "written"
  /\ UNCHANGED <<is_static, sfiles, slot, cnt, dynsyms, st, pf, toff, tsize,
                 tsize0, dynsym_all, writeVars, notScan>>

\* main(): the output is committed by munmap.
Unmap ==
  /\ sphase = "written"
  /\ sphase' = "unmapped"
  /\ UNCHANGED <<is_static, sfiles, slot, cnt, dynsyms, st, pf, toff, tsize,
                 tsize0, dynsym_all, writeVars, notScan>>

ScanNext ==
  \/ \E f \in Files : ScanSymbol(f)
  \/ StartPrefix
  \/ PrefixStep
  \/ AddDynsyms
  \/ StartWrite
  \/ \E f \in Files : WriteSymbol(f)
  \/ GotPltWritten
  \/ Unmap

ScanInit == ScanStart /\ MergeIdle /\ ResolveIdle /\ ComdatIdle /\ BinIdle /\ IsecIdle /\ OsecIdle /\ RankIdle /\ ChunksIdle /\ SymtabIdle /\ PriorityIdle /\ Pass2Idle /\ PadIdle /\ WriterIdle

SpecScan == ScanInit /\ [][ScanNext]_vars

\* ---- properties of scan_rels ----

\* The fields of a symbol that index the file's part of the GOT, with the
\* number of entries a slot of that field occupies.
GotFields ==
  { <<"got_idx", 1>>, <<"gottp_idx", 1>>, <<"gotgd_idx", 2>>, <<"gotld_idx", 1>> }

OwnSymbols(f) == { i \in 1..Len(sfiles[f]) : sfiles[f][i].own }

\* The assigned GOT slots of the symbols defined by f.
GotSlots(f) ==
  { <<i, fw>> \in OwnSymbols(f) \X GotFields : slot[f][i][fw[1]] # -1 }

GotEntries(f, a) == slot[f][a[1]][a[2][1]] .. (slot[f][a[1]][a[2][1]] + a[2][2] - 1)

\* The slots of one single-entry table are distinct and below the counter.
SlotsDistinct(f, field, counter) ==
  /\ \A i \in OwnSymbols(f) :
       slot[f][i][field] # -1 =>
         slot[f][i][field] >= 0 /\ slot[f][i][field] < cnt[f][counter]
  /\ \A i, j \in OwnSymbols(f) :
       (i # j /\ slot[f][i][field] # -1 /\ slot[f][j][field] # -1) =>
         slot[f][i][field] # slot[f][j][field]

\* C8: after the slot-assignment pass, within each file the assigned slots of
\* each table are distinct and below the file's counter; in the GOT the slots
\* are got_idx, gottp_idx, gotgd_idx and gotld_idx, a gotgd_idx slot being two
\* entries wide.
C8_SlotsDistinct ==
  (sphase \in {"prefix", "done"}) =>
    \A f \in Files :
      /\ \A a \in GotSlots(f) :
           \A e \in GotEntries(f, a) : e >= 0 /\ e < cnt[f].num_got
      /\ \A a, b \in GotSlots(f) :
           a # b => GotEntries(f, a) \cap GotEntries(f, b) = {}
      /\ SlotsDistinct(f, "plt_idx", "num_plt")
      /\ SlotsDistinct(f, "gotplt_idx", "num_gotplt")
      /\ SlotsDistinct(f, "relplt_idx", "num_relplt")

\* The same statement for a static link, where the TLS branches end the link.
StaticSlotsDistinct == is_static => C8_SlotsDistinct

TableExists(t) == t # "reldyn" \/ ~is_static

EntrySize(t) ==
  IF t \in {"got", "gotplt"} THEN GOT_SIZE
  ELSE IF t = "plt" THEN PLT_SIZE ELSE RelaSize

Count(f, t) ==
  IF t = "got" THEN cnt[f].num_got
  ELSE IF t = "gotplt" THEN cnt[f].num_gotplt
  ELSE IF t = "plt" THEN cnt[f].num_plt
  ELSE IF t = "relplt" THEN cnt[f].num_relplt
  ELSE cnt[f].num_reldyn

FileRange(f, t) == toff[f][t] .. (toff[f][t] + Count(f, t) * EntrySize(t) - 1)

\* C9: after the prefix-sum loop, for every table that exists the per-file
\* ranges [offset, offset + count * entry size) are pairwise disjoint, follow
\* each other in file order without gaps from the table's size before the
\* loop, and end at the table's final sh_size.
C9_PrefixSums ==
  (sphase = "done") =>
    \A t \in Tables :
      TableExists(t) =>
        /\ toff[1][t] = tsize0[t]
        /\ \A f \in 1..(NFiles - 1) :
             toff[f + 1][t] = toff[f][t] + Count(f, t) * EntrySize(t)
        /\ tsize[t] = toff[NFiles][t] + Count(NFiles, t) * EntrySize(t)
        /\ \A f, g \in Files :
             f # g => FileRange(f, t) \cap FileRange(g, t) = {}

\* A dynamic link where two files both reserve entries in .got and .plt, and
\* .got.plt starts with its reserved entries.
C9_Witness ==
  /\ sphase = "done"
  /\ ~is_static
  /\ tsize0.gotplt > 0
  /\ \A f \in {1, 2} :
       cnt[f].num_got > 0 /\ cnt[f].num_plt > 0 /\ cnt[f].num_reldyn > 0
  /\ \E f \in {1, 2} : cnt[f].num_gotplt > 0


\* ---- properties of write_got_plt ----

\* write_got_plt has returned.
GotPltDone == sphase \in {"written", "unmapped"}

\* C13: in write_got_plt, every symbol with a relplt_idx that is not an IFUNC
\* has plt_addr + 6 stored in its own GOTPLT slot, the word at byte offset
\* gotplt_offset + gotplt_idx * 8 of .got.plt, inside the file's reserved
\* range, for every gotplt_idx the file assigned.
C13_GotpltSeed ==
  GotPltDone =>
    \A f \in Files : \A i \in OwnSymbols(f) :
      (slot[f][i].relplt_idx # -1 /\ ~sfiles[f][i].ifunc) =>
        /\ Store("gotplt", toff[f].gotplt + slot[f][i].gotplt_idx * GOT_SIZE,
                 "PLT_ADDR_PLUS_6", f, i, 0) \in written
        /\ slot[f][i].gotplt_idx >= 0
        /\ slot[f][i].gotplt_idx < cnt[f].num_gotplt

\* The seed is stored in the symbol's slot when gotplt_idx is 0.
FirstGotpltSeed ==
  GotPltDone =>
    \A f \in Files : \A i \in OwnSymbols(f) :
      (slot[f][i].relplt_idx # -1 /\ ~sfiles[f][i].ifunc /\ slot[f][i].gotplt_idx = 0) =>
        Store("gotplt", toff[f].gotplt, "PLT_ADDR_PLUS_6", f, i, 0) \in written

\* The .rela.plt entries written for a symbol.
RelpltEntries(f, i) ==
  { w \in written : w.tbl = "relplt" /\ w.file = f /\ w.sym = i }

\* One .rela.plt entry at the symbol's relplt_idx: IRELATIVE with the symbol's
\* address as addend for an IFUNC, JUMP_SLOT otherwise.
RelpltEntryOk(f, i) ==
  RelpltEntries(f, i) =
    { Store("relplt", toff[f].relplt + slot[f][i].relplt_idx * RelaSize,
            IF sfiles[f][i].ifunc THEN "IRELATIVE" ELSE "JUMP_SLOT", f, i,
            IF sfiles[f][i].ifunc THEN <<"addr", f, i>> ELSE 0) }

\* The statement of C14 for every symbol with a plt_idx, the symbols with a
\* got_idx in a dynamic link included.
C14_Original ==
  \A f \in Files : \A i \in OwnSymbols(f) :
    slot[f][i].plt_idx # -1 =>
      /\ slot[f][i].gotplt_idx # -1
      /\ slot[f][i].relplt_idx # -1
      /\ GotPltDone => RelpltEntryOk(f, i)

\* C14: a symbol that is given a plt_idx also gets a gotplt_idx and a
\* relplt_idx and one .rela.plt entry (IRELATIVE with the symbol's address as
\* addend for an IFUNC, JUMP_SLOT otherwise), except in a dynamic link a
\* symbol that also has a got_idx: it gets neither index and no .rela.plt
\* entry.
C14_PltPair ==
  \A f \in Files : \A i \in OwnSymbols(f) :
    slot[f][i].plt_idx # -1 =>
      IF ~is_static /\ slot[f][i].got_idx # -1
      THEN /\ slot[f][i].gotplt_idx = -1
           /\ slot[f][i].relplt_idx = -1
           /\ RelpltEntries(f, i) = {}
      ELSE /\ slot[f][i].gotplt_idx # -1
           /\ slot[f][i].relplt_idx # -1
           /\ GotPltDone => RelpltEntryOk(f, i)

\* A dynamic link has been written in which one symbol has a PLT entry through
\* its GOT slot, one has a JUMP_SLOT entry and one an IRELATIVE entry.
C14_Witness ==
  /\ GotPltDone
  /\ ~is_static
  /\ \E f \in Files : \E i \in OwnSymbols(f) :
       slot[f][i].plt_idx # -1 /\ slot[f][i].got_idx # -1
  /\ \E w \in written : w.tbl = "relplt" /\ w.kind = "JUMP_SLOT"
  /\ \E w \in written : w.tbl = "relplt" /\ w.kind = "IRELATIVE"

\* A symbol defined by a file of the link has the TLSGD or the TLSLD bit.
HasTlsSymbol ==
  \E f \in Files : \E i \in OwnSymbols(f) :
    sfiles[f][i].rels \cap {"TLSGD", "TLSLD"} # {}

\* C16: a link with a symbol that has the TLSGD or the TLSLD bit never
\* completes write_got_plt and never reaches the unmap; it can only stop in
\* error(), raised during slot assignment in a static link and in
\* write_got_plt in a dynamic link.
C16_TlsIsFatal ==
  HasTlsSymbol =>
    /\ ~GotPltDone
    /\ is_static => sphase \in {"assign", "error"}
    /\ (~is_static /\ sphase = "error") => \E f \in Files : wt[f] > 0
    /\ ~(ENABLED ScanNext) => sphase = "error"

\* A dynamic link was stopped by error() in write_got_plt, after another
\* store had been made.
C16_Witness ==
  /\ HasTlsSymbol
  /\ ~is_static
  /\ sphase = "error"
  /\ written # {}

\* The tables whose entries write_got_plt fills one by one: .got and
\* .rela.plt in a static link, .rela.dyn and .rela.plt in a dynamic link.
FilledTables == IF is_static THEN {"got", "relplt"} ELSE {"reldyn", "relplt"}

\* The stores that hit entry e of file f's range of table t.
StoresAt(f, t, e) ==
  { w \in written : w.tbl = t /\ w.off = toff[f][t] + e * EntrySize(t) }

\* Every reserved entry of the table was written exactly once, and every
\* store into the table hit a reserved entry.
WrittenOnce(t) ==
  /\ \A f \in Files : \A e \in 0..(Count(f, t) - 1) :
       Cardinality(StoresAt(f, t, e)) = 1
  /\ \A w \in written :
       w.tbl = t =>
         \E f \in Files : \E e \in 0..(Count(f, t) - 1) : w \in StoresAt(f, t, e)

\* C26: in a link that completes, write_got_plt has written every reserved
\* entry of .got (static) or .rela.dyn (dynamic) and of .rela.plt exactly
\* once; a .got entry is written by a got_idx or a gottp_idx store.
C26_TablesWrittenOnce ==
  GotPltDone =>
    /\ \A t \in FilledTables : WrittenOnce(t)
    /\ is_static =>
         \A w \in written : w.tbl = "got" => w.kind \in {"ADDR", "TPOFF"}

\* A static link has completed in which a file reserved three .got
\* entries, one of them for a gottp_idx, and an entry of .rela.plt, and the
\* other file reserved .got entries too.
C26_Witness ==
  /\ GotPltDone
  /\ is_static
  /\ \E f \in Files :
       /\ cnt[f].num_got >= 3
       /\ cnt[f].num_relplt >= 1
       /\ \E i \in OwnSymbols(f) : slot[f][i].gottp_idx # -1
  /\ \A f \in Files : cnt[f].num_got >= 1

\* A dynamic link has completed in which both files reserved entries of
\* .rela.dyn and a file reserved an entry of .rela.plt.
DynamicLinkCompleted ==
  /\ GotPltDone
  /\ ~is_static
  /\ \A f \in Files : cnt[f].num_reldyn >= 1
  /\ \E f \in Files : cnt[f].num_relplt >= 1

\* ------------------------------------------------------------------------
\* set_osec_offsets: file offsets and addresses of the output chunks
\* ------------------------------------------------------------------------

PAGE_SIZE == 4096

\* The address of the first chunk: 0x200000.
VaddrBase == 2097152

\* An output chunk: sh_size, sh_addralign, SHF_ALLOC, SHT_NOBITS, SHF_TLS and
\* starts_new_ptload.
Chunk(size, align, alloc, nobits, tls, new_ptload) ==
  [size |-> size, align |-> align, alloc |-> alloc, nobits |-> nobits,
   tls |-> tls, new_ptload |-> new_ptload]

\* The chunks a list is drawn from: alignments below, at and above the page
\* size, empty and page-crossing sizes, .bss and .tbss, non-alloc chunks.
ChunkShapes ==
  { Chunk(64, 8, TRUE, FALSE, FALSE, TRUE),
    Chunk(5, 1, TRUE, FALSE, FALSE, FALSE),
    Chunk(4096, 16, TRUE, FALSE, FALSE, TRUE),
    Chunk(100, 4096, TRUE, FALSE, FALSE, FALSE),
    Chunk(3, 8192, TRUE, FALSE, FALSE, FALSE),
    Chunk(7, 8, TRUE, TRUE, FALSE, FALSE),
    Chunk(9, 4, TRUE, TRUE, TRUE, FALSE),
    Chunk(11, 1, FALSE, FALSE, FALSE, FALSE),
    Chunk(0, 1, TRUE, FALSE, FALSE, FALSE),
    Chunk(5000, 32, TRUE, FALSE, TRUE, TRUE) }

OsecStart ==
  /\ \E n \in 0..MaxChunks : chunks \in [1..n -> ChunkShapes]
  /\ ci = 0
  /\ fileoff = 0
  /\ vaddr = VaddrBase
  /\ sh_offset = [n \in 1..Len(chunks) |-> 0]
  /\ sh_addr = [n \in 1..Len(chunks) |-> 0]
  /\ filesize = -1

\* A variant that sets the position inside the page without leaving the page.
PageRealignInPage(fo, va) == (fo - (fo % PAGE_SIZE)) + (va % PAGE_SIZE)

\* A variant that keeps the position inside the page and drops the pages
\* already laid out.
PageRealignToAddr(fo, va) == va % PAGE_SIZE

\* A variant that moves the file offset forward inside its page only.
PageRealignForwardOnly(fo, va) ==
  IF va % PAGE_SIZE > fo % PAGE_SIZE
  THEN fo + ((va % PAGE_SIZE) - (fo % PAGE_SIZE))
  ELSE fo

\* The file offset made congruent to the address modulo the page size.
PageRealign(fo, va) ==
  IF va % PAGE_SIZE > fo % PAGE_SIZE
  THEN fo + ((va % PAGE_SIZE) - (fo % PAGE_SIZE))
  ELSE IF va % PAGE_SIZE < fo % PAGE_SIZE
  THEN AlignTo(fo, PAGE_SIZE) + (va % PAGE_SIZE)
  ELSE fo

\* One iteration of the loop over the chunks.
LayoutChunk ==
  /\ filesize = -1
  /\ ci < Len(chunks)
  /\ LET n == ci + 1
         chunk == chunks[n]
         va1 == IF chunk.new_ptload THEN AlignTo(vaddr, PAGE_SIZE) ELSE vaddr
         fo1 == IF ~chunk.nobits THEN PageRealign(fileoff, va1) ELSE fileoff
         fo2 == AlignTo(fo1, chunk.align)
         va2 == AlignTo(va1, chunk.align)
     IN  /\ sh_offset' = [sh_offset EXCEPT ![n] = fo2]
         /\ sh_addr' = [sh_addr EXCEPT ![n] = IF chunk.alloc THEN va2 ELSE @]
         /\ fileoff' = IF ~chunk.nobits THEN fo2 + chunk.size ELSE fo2
         /\ vaddr' = IF ~(chunk.nobits /\ chunk.tls) THEN va2 + chunk.size ELSE va2
         /\ ci' = n
  /\ UNCHANGED <<chunks, filesize, notOsec>>

\* The loop is over: the file offset is returned.
OsecReturn ==
  /\ filesize = -1
  /\ ci = Len(chunks)
  /\ filesize' = fileoff
  /\ UNCHANGED <<chunks, ci, fileoff, vaddr, sh_offset, sh_addr, notOsec>>

OsecNext ==
  \/ LayoutChunk
  \/ OsecReturn

OsecInit == OsecStart /\ MergeIdle /\ ResolveIdle /\ ComdatIdle /\ BinIdle /\ IsecIdle /\ ScanIdle /\ RankIdle /\ ChunksIdle /\ SymtabIdle /\ PriorityIdle /\ Pass2Idle /\ PadIdle /\ WriterIdle

SpecOsec == OsecInit /\ [][OsecNext]_vars

\* ---- properties of set_osec_offsets ----

\* C10: after set_osec_offsets, every chunk that has SHF_ALLOC and is not
\* SHT_NOBITS has sh_offset mod 4096 = sh_addr mod 4096, whatever the sizes,
\* the power-of-two alignments and the placement of starts_new_ptload.
C10_OffsetCongruentToAddr ==
  (filesize # -1) =>
    \A n \in 1..Len(chunks) :
      (chunks[n].alloc /\ ~chunks[n].nobits) =>
        sh_offset[n] % PAGE_SIZE = sh_addr[n] % PAGE_SIZE

\* A list where a chunk that starts a segment follows a .bss chunk (the offset
\* has to be moved to the address's position in the page), and a chunk aligned
\* beyond the page size has been laid out after a chunk that is not.
C10_Witness ==
  /\ filesize # -1
  /\ Len(chunks) = 3
  /\ chunks[1].nobits /\ ~chunks[1].tls
  /\ chunks[2].alloc /\ ~chunks[2].nobits /\ chunks[2].size % PAGE_SIZE # 0
  /\ chunks[3].alloc /\ ~chunks[3].nobits /\ chunks[3].align > PAGE_SIZE
  /\ sh_offset[2] # sh_addr[2] - VaddrBase

\* The chunks that take room in the file.
InFile == { n \in 1..Len(chunks) : ~chunks[n].nobits }

ChunkEnd(n) == sh_offset[n] + chunks[n].size

ChunkFileRange(n) == sh_offset[n] .. (ChunkEnd(n) - 1)

\* The last chunk of the list that is not SHT_NOBITS (InFile is not empty).
LastInFile == CHOOSE n \in InFile : \A k \in InFile : k <= n

\* Every chunk that takes room in the file lies inside [0, file size), and no
\* two of them overlap.
FileRangesDisjoint ==
  /\ \A n \in InFile : sh_offset[n] >= 0 /\ ChunkEnd(n) <= filesize
  /\ \A n, k \in InFile : n # k => ChunkFileRange(n) \cap ChunkFileRange(k) = {}

Allocated == { n \in 1..Len(chunks) : chunks[n].alloc }

\* The addresses of chunk n and of the later chunk k have a byte in common.
AddrOverlap(n, k) ==
  /\ chunks[n].size > 0 /\ chunks[k].size > 0
  /\ sh_addr[k] < sh_addr[n] + chunks[n].size
  /\ sh_addr[n] < sh_addr[k] + chunks[k].size

IsTbss(n) == chunks[n].nobits /\ chunks[n].tls

\* C24: after set_osec_offsets sh_offset is non-decreasing along the chunk
\* list and sh_addr is non-decreasing along its SHF_ALLOC chunks, so no two
\* allocated chunks are in one order by file offset and in the other by
\* address; the address range of an allocated chunk overlaps that of a
\* later allocated chunk only if the chunk is TLS NOBITS.
C24_OffsetsAndAddressesOrdered ==
  (filesize # -1) =>
    /\ \A n, k \in 1..Len(chunks) : n < k => sh_offset[n] <= sh_offset[k]
    /\ \A n, k \in Allocated : n < k => sh_addr[n] <= sh_addr[k]
    /\ \A n, k \in Allocated :
         ~(sh_offset[n] < sh_offset[k] /\ sh_addr[n] > sh_addr[k])
    /\ \A n, k \in Allocated : (n < k /\ AddrOverlap(n, k)) => IsTbss(n)

\* set_osec_offsets has returned for a list in which a .tbss chunk shares
\* addresses with the chunk after it, and a .bss chunk shares its file
\* offset with the chunk after it but not its addresses.
C24_Witness ==
  /\ filesize # -1
  /\ \E n, k \in Allocated : n < k /\ IsTbss(n) /\ AddrOverlap(n, k)
  /\ \E n, k \in Allocated :
       /\ n < k
       /\ chunks[n].nobits /\ ~chunks[n].tls
       /\ sh_offset[n] = sh_offset[k]
       /\ sh_addr[n] < sh_addr[k]

\* ------------------------------------------------------------------------
\* get_section_rank and the stable sort of the chunk list (main)
\* ------------------------------------------------------------------------

\* Largest number of chunks handed to the stable sort.
MaxSorted == 2

\* false and true as the integers 0 and 1.
Bit(b) == IF b THEN 1 ELSE 0

\* get_section_rank:
\* (alloc << 5) | (!writable << 4) | (!exec << 3) | (tls << 2) | !nobits.
Rank(c) ==
  32 * Bit(c.alloc) + 16 * Bit(~c.writable) + 8 * Bit(~c.exec) + 4 * Bit(c.tls)
    + Bit(~c.nobits)

\* The comparator handed to std::stable_sort: a goes before b.
RankBefore(a, b) == Rank(a) > Rank(b)

\* std::stable_sort, one element: c is put behind every element that it does
\* not go before.
RECURSIVE InsertStable(_, _)
InsertStable(sorted, c) ==
  IF sorted = << >> THEN <<c>>
  ELSE IF RankBefore(c, sorted[Len(sorted)])
       THEN Append(InsertStable(SubSeq(sorted, 1, Len(sorted) - 1), c),
                   sorted[Len(sorted)])
       ELSE Append(sorted, c)

RECURSIVE StableSort(_, _)
\* std::stable_sort of the first n elements of q.
StableSort(q, n) ==
  IF n = 0 THEN << >> ELSE InsertStable(StableSort(q, n - 1), q[n])

\* The flags of a chunk: SHF_ALLOC, SHF_WRITE, SHF_EXECINSTR, SHF_TLS and
\* whether sh_type is SHT_NOBITS.
FlagSets ==
  [alloc : BOOLEAN, writable : BOOLEAN, exec : BOOLEAN, tls : BOOLEAN,
   nobits : BOOLEAN]

RankStart ==
  /\ \E n \in 0..MaxSorted :
       \E fl \in [1..n -> FlagSets] :
         rchunks = [i \in 1..n |->
                      [id |-> i, alloc |-> fl[i].alloc, writable |-> fl[i].writable,
                       exec |-> fl[i].exec, tls |-> fl[i].tls,
                       nobits |-> fl[i].nobits]]
  /\ rsorted = << >>
  /\ sortphase = "unsorted"

\* The call of std::stable_sort.
SortChunks ==
  /\ sortphase = "unsorted"
  /\ rsorted' = StableSort(rchunks, Len(rchunks))
  /\ sortphase' = "sorted"
  /\ UNCHANGED <<rchunks, notRank>>

RankNext == SortChunks

RankInit == RankStart /\ MergeIdle /\ ResolveIdle /\ ComdatIdle /\ BinIdle /\ IsecIdle /\ ScanIdle /\ OsecIdle /\ ChunksIdle /\ SymtabIdle /\ PriorityIdle /\ Pass2Idle /\ PadIdle /\ WriterIdle

SpecRank == RankInit /\ [][RankNext]_vars

\* ---- properties of the sort ----

\* The class of a chunk in the order of the comment above get_section_rank:
\* 1 alloc read-only data, 2 alloc read-only code, 3 alloc writable tdata,
\* 4 alloc writable tbss, 5 alloc writable data, 6 alloc writable bss,
\* 7 non-alloc.
SectionClass(c) ==
  IF ~c.alloc THEN 7
  ELSE IF ~c.writable THEN (IF c.exec THEN 2 ELSE 1)
  ELSE IF c.tls THEN (IF c.nobits THEN 4 ELSE 3)
  ELSE (IF c.nobits THEN 6 ELSE 5)

\* The sorted list holds the chunks of the input, each once.
SortPermutes ==
  /\ Len(rsorted) = Len(rchunks)
  /\ \A i \in 1..Len(rchunks) : \E k \in 1..Len(rsorted) : rsorted[k] = rchunks[i]

\* Chunks of equal rank keep their prior relative order.
SortIsStable ==
  (sortphase = "sorted") =>
    /\ SortPermutes
    /\ \A i, k \in 1..Len(rsorted) :
         (i < k /\ Rank(rsorted[i]) = Rank(rsorted[k])) =>
           rsorted[i].id < rsorted[k].id

\* C12: after the stable sort by descending get_section_rank the chunks are
\* in the class order read-only data, read-only code, writable tdata, writable
\* tbss, writable data, writable bss, non-alloc, for every combination of the
\* five flags, and chunks of equal rank keep their prior relative order.
C12_ClassOrder ==
  (sortphase = "sorted") =>
    /\ SortPermutes
    /\ \A i, k \in 1..Len(rsorted) :
         i < k => SectionClass(rsorted[i]) <= SectionClass(rsorted[k])
    /\ \A i, k \in 1..Len(rsorted) :
         (i < k /\ Rank(rsorted[i]) = Rank(rsorted[k])) =>
           rsorted[i].id < rsorted[k].id

\* The class order holds when no chunk is both writable and executable.
ClassOrderWithoutWX ==
  (sortphase = "sorted" /\ \A i \in 1..Len(rchunks) :
                             ~(rchunks[i].alloc /\ rchunks[i].writable /\ rchunks[i].exec)) =>
    \A i, k \in 1..Len(rsorted) :
      i < k => SectionClass(rsorted[i]) <= SectionClass(rsorted[k])

\* ------------------------------------------------------------------------
\* The layout phases together
\* ------------------------------------------------------------------------

\* The parallel layout phases of main(), each from every input it can be
\* handed: the phases are separated by the return of their parallel loops and
\* share no state while they run.
LayoutInit == MergeInit \/ BinInit \/ IsecInit \/ ScanInit

LayoutNext ==
  \/ mfiles # << >> /\ MergeNext
  \/ bphase # "idle" /\ BinNext
  \/ iphase # "idle" /\ IsecNext
  \/ sphase # "idle" /\ ScanNext

SpecLayout == LayoutInit /\ [][LayoutNext]_vars

\* ---- the results of the phases as functions of their input ----

\* The section that holds p in the file of least priority, the first such
\* section of that file.
RefWinner(p) ==
  CHOOSE k \in Holders(p) :
    \A h \in Holders(p) :
      \/ MPriority(k[1]) < MPriority(h[1])
      \/ (k[1] = h[1] /\ k[2] <= h[2])

\* The position of piece p in the piece list of section k.
PiecePos(k, p) == CHOOSE r \in 1..Len(SecOf(k).pieces) : RefPiece(k[1], k[2], r) = p

\* The pieces section k wins among its first n references.
RefWon(k, n) == { r \in 1..n : RefWinner(RefPiece(k[1], k[2], r)) = k }

RefSecSize(k, n) ==
  SumOver([r \in RefWon(k, n) |-> DataSize(RefPiece(k[1], k[2], r))], RefWon(k, n))

\* output_offset: the lengths of the pieces its section wins before it.
RefPieceOff(p) == RefSecSize(RefWinner(p), PiecePos(RefWinner(p), p) - 1)

\* isec.offset: the sizes of the sections of the same parent before it, in
\* file order, then section order.
RefSecOffset(k) ==
  LET before == { h \in SecKeys :
                    /\ SecOf(h).parent = SecOf(k).parent
                    /\ (h[1] < k[1] \/ (h[1] = k[1] /\ h[2] < k[2])) }
  IN  SumOver([h \in before |-> RefSecSize(h, Len(SecOf(h).pieces))], before)

\* The slice that holds member n.
SliceOfMember(n) ==
  CHOOSE i \in 1..Len(ISlices) : \E x \in 1..Len(ISlices[i]) : ISlices[i][x] = n

\* The first loop over slice i run alone: <<offsets, size, alignment>>.
RefSlice(i) == SliceWalk(ISlices[i], [n \in 1..Len(imembers) |-> -1], 0, 1)

RefAlign == MaxElement([i \in 1..Len(ISlices) |-> RefSlice(i)[3]])

RECURSIVE RefSliceStart(_)
RefSliceStart(i) ==
  IF i = 1 THEN 0
  ELSE AlignTo(RefSliceStart(i - 1) + RefSlice(i - 1)[2], RefAlign)

RefMemberOffset(n) ==
  RefSlice(SliceOfMember(n))[1][n] + RefSliceStart(SliceOfMember(n))

RECURSIVE RefScan(_, _)
\* The slots and counters of file f after its first n symbols, the loop run
\* alone: [s: slots of every symbol, c: counters].
RefScan(f, n) ==
  IF n = 0 THEN [s |-> [i \in 1..Len(sfiles[f]) |-> NoSlots], c |-> NoCounts]
  ELSE LET prev == RefScan(f, n - 1)
           r == IF is_static THEN ScanStatic(sfiles[f][n], NoSlots, prev.c)
                ELSE ScanDynamic(sfiles[f][n], NoSlots, prev.c)
       IN  IF sfiles[f][n].own
           THEN [s |-> [prev.s EXCEPT ![n] = r.s], c |-> r.c]
           ELSE prev

RefCount(f, t) ==
  LET c == RefScan(f, Len(sfiles[f])).c
  IN  IF t = "got" THEN c.num_got
      ELSE IF t = "gotplt" THEN c.num_gotplt
      ELSE IF t = "plt" THEN c.num_plt
      ELSE IF t = "relplt" THEN c.num_relplt
      ELSE c.num_reldyn

\* The offset of file f in table t: the table's size on entry and the parts
\* of the files before f.
RefTableOffset(f, t) ==
  IF ~TableExists(t) THEN -1
  ELSE tsize0[t] + SumOver([g \in 1..(f - 1) |-> RefCount(g, t) * EntrySize(t)],
                          1..(f - 1))

\* C15: for a fixed input, every schedule of the parallel tasks ends the
\* layout phases with the same results: the piece winners, the piece output
\* offsets and the mergeable-section offsets, the member order of every
\* output section, the member offsets, and the slots and per-file table
\* offsets are the values of functions of the input alone.
C15_LayoutDeterministic ==
  /\ (mfiles # << >> /\ p3done) =>
       /\ \A p \in Linked :
            piece_isec[p] = RefWinner(p) /\ piece_off[p] = RefPieceOff(p)
       /\ \A k \in SecKeys : sec_offset[k] = RefSecOffset(k)
  /\ (bphase # "idle" /\ BinFinished) =>
       \A j \in OsecIds : members[j] = InOrder(j, 1, 1)
  /\ (iphase = "done" /\ imembers # << >>) =>
       \A n \in 1..Len(imembers) : ioffset[n] = RefMemberOffset(n)
  /\ (sphase = "done") =>
       \A f \in Files :
         /\ slot[f] = RefScan(f, Len(sfiles[f])).s
         /\ \A t \in Tables : toff[f][t] = RefTableOffset(f, t)

\* The string passes are over and the second file of the list has won a
\* piece that the first file holds too, placed behind another piece.
C15_Witness ==
  /\ mfiles # << >>
  /\ p3done
  /\ \E p \in Linked :
       /\ \E k \in Holders(p) : k[1] = 1
       /\ piece_isec[p][1] = 2
       /\ piece_off[p] > 0

\* ------------------------------------------------------------------------
\* The chunk list of main()
\* ------------------------------------------------------------------------

\* Largest number of regular output sections in the chunk list.
MaxRegular == 2

OChunk(name, alloc, writable, exec, nobits) ==
  [name |-> name, alloc |-> alloc, writable |-> writable, exec |-> exec,
   tls |-> FALSE, nobits |-> nobits]

\* A null pointer in the chunk list.
NullChunk == OChunk("null", FALSE, FALSE, FALSE, FALSE)

\* The regular output sections (of non-zero size) a link may have.
RegularShapes ==
  { OChunk(".text", TRUE, FALSE, TRUE, FALSE),
    OChunk(".data", TRUE, TRUE, FALSE, FALSE),
    OChunk(".bss", TRUE, TRUE, FALSE, TRUE),
    OChunk(".rodata", TRUE, FALSE, FALSE, FALSE),
    OChunk(".comment", FALSE, FALSE, FALSE, FALSE) }

\* A section main() creates only when -static is not given.
DynamicOnly(c) == IF cl_static THEN NullChunk ELSE c

\* The synthetic sections in the order main() pushes them; out::reldyn,
\* out::dynamic and out::hash are null in a static link, out::dynsym and
\* out::dynstr are created in every link.
Synthetic ==
  << OChunk(".got", TRUE, TRUE, FALSE, FALSE),
     OChunk(".plt", TRUE, FALSE, TRUE, FALSE),
     OChunk(".got.plt", TRUE, TRUE, FALSE, FALSE),
     OChunk(".rela.plt", TRUE, FALSE, FALSE, FALSE),
     DynamicOnly(OChunk(".rela.dyn", TRUE, FALSE, FALSE, FALSE)),
     DynamicOnly(OChunk(".dynamic", TRUE, TRUE, FALSE, FALSE)),
     OChunk(".dynsym", TRUE, FALSE, FALSE, FALSE),
     OChunk(".dynstr", TRUE, FALSE, FALSE, FALSE),
     OChunk(".shstrtab", FALSE, FALSE, FALSE, FALSE),
     OChunk(".symtab", FALSE, FALSE, FALSE, FALSE),
     OChunk(".strtab", FALSE, FALSE, FALSE, FALSE),
     DynamicOnly(OChunk(".hash", TRUE, FALSE, FALSE, FALSE)) >>

Ehdr == OChunk("ehdr", TRUE, FALSE, FALSE, FALSE)
Phdr == OChunk("phdr", TRUE, FALSE, FALSE, FALSE)
Shdr == OChunk("shdr", FALSE, FALSE, FALSE, FALSE)
Interp == DynamicOnly(OChunk(".interp", TRUE, FALSE, FALSE, FALSE))

\* The elements of q that are not null, in order.
RECURSIVE EraseNull(_)
EraseNull(q) ==
  IF q = << >> THEN << >>
  ELSE IF Head(q) = NullChunk THEN EraseNull(Tail(q))
  ELSE <<Head(q)>> \o EraseNull(Tail(q))

\* q with c inserted before the element at index i (counted from 0).
InsertAt(q, i, c) == SubSeq(q, 1, i) \o <<c>> \o SubSeq(q, i + 1, Len(q))

\* The list of regular and merged output sections of non-zero size.
ChunksStart ==
  /\ cl_static \in BOOLEAN
  /\ clist \in UNION {SeqsOfLen(RegularShapes, n) : n \in 0..MaxRegular}
  /\ clphase = "sections"

\* chunks.push_back of the twelve synthetic sections.
PushSynthetic ==
  /\ clphase = "sections"
  /\ clist' = clist \o Synthetic
  /\ clphase' = "pushed"
  /\ UNCHANGED <<cl_static, notChunks>>

\* chunks.erase(std::remove_if(..., !c), ...).
EraseNullChunks ==
  /\ clphase = "pushed"
  /\ clist' = EraseNull(clist)
  /\ clphase' = "erased"
  /\ UNCHANGED <<cl_static, notChunks>>

\* std::stable_sort by descending get_section_rank.
SortChunkList ==
  /\ clphase = "erased"
  /\ clist' = StableSort(clist, Len(clist))
  /\ clphase' = "sorted"
  /\ UNCHANGED <<cl_static, notChunks>>

\* The headers: ehdr first, phdr second, .interp third if it exists, shdr
\* last.
InsertHeaders ==
  /\ clphase = "sorted"
  /\ LET a == InsertAt(clist, 0, Ehdr)
         b == InsertAt(a, 1, Phdr)
         c == IF Interp # NullChunk THEN InsertAt(b, 2, Interp) ELSE b
     IN  clist' = Append(c, Shdr)
  /\ clphase' = "done"
  /\ UNCHANGED <<cl_static, notChunks>>

ChunksNext ==
  \/ PushSynthetic
  \/ EraseNullChunks
  \/ SortChunkList
  \/ InsertHeaders

ChunksInit == ChunksStart /\ MergeIdle /\ ResolveIdle /\ ComdatIdle /\ BinIdle /\ IsecIdle /\ ScanIdle /\ OsecIdle /\ RankIdle /\ SymtabIdle /\ PriorityIdle /\ Pass2Idle /\ PadIdle /\ WriterIdle

SpecChunks == ChunksInit /\ [][ChunksNext]_vars

\* ---- properties of the chunk list ----

ChunkNames == { clist[n].name : n \in 1..Len(clist) }

\* C17: with -static the final chunk list has no .interp chunk and no
\* .dynamic, .dynsym, .dynstr, .rela.dyn or .hash chunk; without -static it
\* has .interp at position 2 and .dynamic, .rela.dyn and .hash.
C17_StaticHasNoDynamicChunks ==
  (clphase = "done") =>
    IF cl_static
    THEN ChunkNames \cap {".interp", ".dynamic", ".dynsym", ".dynstr", ".rela.dyn",
                          ".hash"} = {}
    ELSE /\ clist[3].name = ".interp"
         /\ {".dynamic", ".rela.dyn", ".hash"} \subseteq ChunkNames

\* What holds of the list main() builds: with -static no .interp, .dynamic,
\* .rela.dyn or .hash; without -static .interp at position 2 and all the
\* dynamic sections; no null pointer, ehdr and phdr first, shdr last.
ChunkListShape ==
  (clphase = "done") =>
    /\ "null" \notin ChunkNames
    /\ clist[1] = Ehdr /\ clist[2] = Phdr /\ clist[Len(clist)] = Shdr
    /\ IF cl_static
       THEN ChunkNames \cap {".interp", ".dynamic", ".rela.dyn", ".hash"} = {}
       ELSE /\ clist[3].name = ".interp"
            /\ {".dynamic", ".rela.dyn", ".hash", ".dynsym", ".dynstr"} \subseteq ChunkNames

\* ------------------------------------------------------------------------
\* The sizes of .symtab and .strtab (main) and write_symtab
\* ------------------------------------------------------------------------

\* Number of files whose symbols are written.
NYFiles == 2

\* Largest number of local, and of global, symbols of a file.
MaxSyms == 1

\* Bytes a symbol's name takes in .strtab, the terminating NUL included.
NameBytes == 4

\* The sizes compute_symtab leaves in a file with nl local and ng global
\* symbols.
SymtabSizes(nl, ng) ==
  [local_symtab_size |-> nl * SymSize, local_strtab_size |-> nl * NameBytes,
   global_symtab_size |-> ng * SymSize, global_strtab_size |-> ng * NameBytes]

FileSymShapes == { SymtabSizes(nl, ng) : nl \in 0..MaxSyms, ng \in 0..MaxSyms }

\* The sh_size the constructors of SymtabSection and StrtabSection leave:
\* one null symbol entry and one NUL byte, or nothing.
NullEntrySizes == [symtab |-> SymSize, strtab |-> 1]

InitSizes == { NullEntrySizes, [symtab |-> 0, strtab |-> 0] }

SymtabStart ==
  /\ yfiles \in [1..NYFiles -> FileSymShapes]
  /\ yinit \in InitSizes
  /\ yphase = "sum"
  /\ yi = 1
  /\ symtab_size = yinit.symtab
  /\ strtab_size = yinit.strtab
  /\ sh_info = 0
  /\ local_symtab_off = << >>
  /\ local_strtab_off = << >>
  /\ global_symtab_off = << >>
  /\ global_strtab_off = << >>
  /\ ywritten = {}

\* main: one iteration of the loop that adds a file's sizes to sh_size.
SumSizes ==
  /\ yphase = "sum"
  /\ yi <= Len(yfiles)
  /\ symtab_size' = symtab_size + yfiles[yi].local_symtab_size
                                + yfiles[yi].global_symtab_size
  /\ strtab_size' = strtab_size + yfiles[yi].local_strtab_size
                                + yfiles[yi].global_strtab_size
  /\ yi' = yi + 1
  /\ UNCHANGED <<yfiles, yphase, sh_info, local_symtab_off, local_strtab_off,
                 global_symtab_off, global_strtab_off, ywritten, yinit>>
  /\ UNCHANGED notSymtab

\* write_symtab is entered: the local offset vectors get their first element.
EnterWriteSymtab ==
  /\ yphase = "sum"
  /\ yi > Len(yfiles)
  /\ local_symtab_off' = <<SymSize>>
  /\ local_strtab_off' = <<1>>
  /\ yphase' = "local"
  /\ yi' = 1
  /\ UNCHANGED <<yfiles, symtab_size, strtab_size, sh_info, global_symtab_off,
                 global_strtab_off, ywritten, yinit>>
  /\ UNCHANGED notSymtab

\* One iteration of the first loop of write_symtab.
LocalOffset ==
  /\ yphase = "local"
  /\ yi <= Len(yfiles)
  /\ local_symtab_off' =
       Append(local_symtab_off, local_symtab_off[yi] + yfiles[yi].local_symtab_size)
  /\ local_strtab_off' =
       Append(local_strtab_off, local_strtab_off[yi] + yfiles[yi].local_strtab_size)
  /\ yi' = yi + 1
  /\ UNCHANGED <<yfiles, yphase, symtab_size, strtab_size, sh_info,
                 global_symtab_off, global_strtab_off, ywritten, yinit>>
  /\ UNCHANGED notSymtab

\* A variant in which the global ranges start where the local ranges start.
GlobalBaseFront(local_off) == local_off[1]

\* The offset the global ranges start at: local_symtab_off.back().
GlobalBase(local_off) == local_off[Len(local_off)]

\* sh_info is set and the global offset vectors get their first element.
SetInfo ==
  /\ yphase = "local"
  /\ yi > Len(yfiles)
  /\ sh_info' = local_symtab_off[Len(local_symtab_off)] \div SymSize
  /\ global_symtab_off' = <<GlobalBase(local_symtab_off)>>
  /\ global_strtab_off' = <<GlobalBase(local_strtab_off)>>
  /\ yphase' = "global"
  /\ yi' = 1
  /\ UNCHANGED <<yfiles, symtab_size, strtab_size, local_symtab_off,
                 local_strtab_off, ywritten, yinit>>
  /\ UNCHANGED notSymtab

\* One iteration of the second loop of write_symtab.
GlobalOffset ==
  /\ yphase = "global"
  /\ yi <= Len(yfiles)
  /\ global_symtab_off' =
       Append(global_symtab_off, global_symtab_off[yi] + yfiles[yi].global_symtab_size)
  /\ global_strtab_off' =
       Append(global_strtab_off, global_strtab_off[yi] + yfiles[yi].global_strtab_size)
  /\ yi' = yi + 1
  /\ UNCHANGED <<yfiles, yphase, symtab_size, strtab_size, sh_info,
                 local_symtab_off, local_strtab_off, ywritten, yinit>>
  /\ UNCHANGED notSymtab

\* The two assertions of write_symtab.
AssertionsHold ==
  /\ global_symtab_off[Len(global_symtab_off)] = symtab_size
  /\ global_strtab_off[Len(global_strtab_off)] = strtab_size

CheckAssertions ==
  /\ yphase = "global"
  /\ yi > Len(yfiles)
  /\ yphase' = IF AssertionsHold THEN "write" ELSE "abort"
  /\ UNCHANGED <<yfiles, yi, symtab_size, strtab_size, sh_info, local_symtab_off,
                 local_strtab_off, global_symtab_off, global_strtab_off,
                 ywritten, yinit>>
  /\ UNCHANGED notSymtab

\* The parallel_for of write_symtab writes the symbols of file i.
WriteFileSymtab(i) ==
  /\ yphase = "write"
  /\ i \notin ywritten
  /\ ywritten' = ywritten \cup {i}
  /\ yphase' = IF ywritten' = DOMAIN yfiles THEN "done" ELSE "write"
  /\ UNCHANGED <<yfiles, yi, symtab_size, strtab_size, sh_info, local_symtab_off,
                 local_strtab_off, global_symtab_off, global_strtab_off, yinit>>
  /\ UNCHANGED notSymtab

SymtabNext ==
  \/ SumSizes
  \/ EnterWriteSymtab
  \/ LocalOffset
  \/ SetInfo
  \/ GlobalOffset
  \/ CheckAssertions
  \/ \E i \in DOMAIN yfiles : WriteFileSymtab(i)

SymtabInit == SymtabStart /\ MergeIdle /\ ResolveIdle /\ ComdatIdle /\ BinIdle /\ IsecIdle /\ ScanIdle /\ OsecIdle /\ RankIdle /\ ChunksIdle /\ PriorityIdle /\ Pass2Idle /\ PadIdle /\ WriterIdle

SpecSymtab == SymtabInit /\ [][SymtabNext]_vars

\* ---- properties of write_symtab ----

\* The byte range a file gets in a table whose offset vector is off.
TableRange(off, i) == [lo |-> off[i], hi |-> off[i + 1]]

\* The ranges of both kinds in one table, local ranges first.
SymtabRanges ==
  [i \in 1..NYFiles |-> TableRange(local_symtab_off, i)] \o
  [i \in 1..NYFiles |-> TableRange(global_symtab_off, i)]

StrtabRanges ==
  [i \in 1..NYFiles |-> TableRange(local_strtab_off, i)] \o
  [i \in 1..NYFiles |-> TableRange(global_strtab_off, i)]

\* No byte lies in two ranges of the sequence.
RangesDisjoint(rs) ==
  \A a, b \in DOMAIN rs :
    a # b => \/ rs[a].hi <= rs[b].lo
             \/ rs[b].hi <= rs[a].lo
             \/ rs[a].lo = rs[a].hi
             \/ rs[b].lo = rs[b].hi

\* Every local range ends before every global range starts.
LocalsPrecedeGlobals(loc, glob) ==
  \A i, j \in 1..NYFiles : loc[i + 1] <= glob[j]

\* write_symtab has evaluated its assertions.
SymtabChecked == yphase \in {"write", "done", "abort"}

SymtabLaidOut ==
  /\ yphase # "abort"
  /\ AssertionsHold
  /\ RangesDisjoint(SymtabRanges)
  /\ RangesDisjoint(StrtabRanges)
  /\ LocalsPrecedeGlobals(local_symtab_off, global_symtab_off)
  /\ LocalsPrecedeGlobals(local_strtab_off, global_strtab_off)
  /\ sh_info * SymSize = global_symtab_off[1]

\* C18: when .symtab and .strtab start with one null symbol entry and one
\* NUL byte, write_symtab passes both assertions, the ranges of the files
\* in each table are pairwise disjoint, every local range precedes every
\* global range, and sh_info is the index of the first global entry.
C18_SymtabRanges ==
  (SymtabChecked /\ yinit = NullEntrySizes) => SymtabLaidOut

\* write_symtab has written two files that both have local and global
\* symbols, from tables that started with the null entries.
C18_Witness ==
  /\ yphase = "done"
  /\ yinit = NullEntrySizes
  /\ \A i \in DOMAIN yfiles :
       yfiles[i].local_symtab_size > 0 /\ yfiles[i].global_symtab_size > 0

\* Without the null entries both assertions fail.
EmptyTablesAbort ==
  (SymtabChecked /\ yinit # NullEntrySizes) => yphase = "abort"

\* ------------------------------------------------------------------------
\* File priorities (main)
\* ------------------------------------------------------------------------

\* Largest number of input files that get a priority.
NPFiles == 4

\* A variant of priority++ that does not advance the counter.
PostIncrementStuck(p) == p

\* priority++ : the value of the counter after the assignment.
PostIncrement(p) == p + 1

\* int priority = 1, before the first loop.
PriorityStart ==
  /\ \E n \in 0..NPFiles : pflags \in [1..n -> BOOLEAN]
  /\ pphase = "primary"
  /\ pidx = 1
  /\ priority = 1
  /\ fprio = [f \in DOMAIN pflags |-> 0]
  /\ internal_priority = 0

\* One iteration of the loop over the files that are not in an archive.
PrimaryStep ==
  /\ pphase = "primary"
  /\ pidx <= Len(pflags)
  /\ IF ~pflags[pidx]
       THEN /\ fprio' = [fprio EXCEPT ![pidx] = priority]
            /\ priority' = PostIncrement(priority)
       ELSE UNCHANGED <<fprio, priority>>
  /\ pidx' = pidx + 1
  /\ UNCHANGED <<pflags, pphase, internal_priority>>
  /\ UNCHANGED notPriority

PrimaryDone ==
  /\ pphase = "primary"
  /\ pidx > Len(pflags)
  /\ pphase' = "archive"
  /\ pidx' = 1
  /\ UNCHANGED <<pflags, priority, fprio, internal_priority>>
  /\ UNCHANGED notPriority

\* One iteration of the loop over the archive members.
ArchiveStep ==
  /\ pphase = "archive"
  /\ pidx <= Len(pflags)
  /\ IF pflags[pidx]
       THEN /\ fprio' = [fprio EXCEPT ![pidx] = priority]
            /\ priority' = PostIncrement(priority)
       ELSE UNCHANGED <<fprio, priority>>
  /\ pidx' = pidx + 1
  /\ UNCHANGED <<pflags, pphase, internal_priority>>
  /\ UNCHANGED notPriority

PrioArchiveDone ==
  /\ pphase = "archive"
  /\ pidx > Len(pflags)
  /\ pphase' = "internal"
  /\ UNCHANGED <<pflags, pidx, priority, fprio, internal_priority>>
  /\ UNCHANGED notPriority

\* internal_file->priority = priority++
InternalFile ==
  /\ pphase = "internal"
  /\ internal_priority' = priority
  /\ priority' = PostIncrement(priority)
  /\ pphase' = "done"
  /\ UNCHANGED <<pflags, pidx, fprio>>
  /\ UNCHANGED notPriority

PriorityNext ==
  \/ PrimaryStep
  \/ PrimaryDone
  \/ ArchiveStep
  \/ PrioArchiveDone
  \/ InternalFile

PriorityInit == PriorityStart /\ MergeIdle /\ ResolveIdle /\ ComdatIdle /\ BinIdle /\ IsecIdle /\ ScanIdle /\ OsecIdle /\ RankIdle /\ ChunksIdle /\ SymtabIdle /\ Pass2Idle /\ PadIdle /\ WriterIdle

SpecPriority == PriorityInit /\ [][PriorityNext]_vars

\* ---- properties of the priorities ----

PrimaryListed == { f \in DOMAIN pflags : ~pflags[f] }

MemberListed == { f \in DOMAIN pflags : pflags[f] }

\* The priorities of the files of S follow their order in the file list.
InListOrder(S) == \A f, g \in S : f < g => fprio[f] < fprio[g]

PrioritiesAssigned ==
  /\ \A f \in DOMAIN pflags : fprio[f] > 0
  /\ internal_priority > 0
  /\ \A f, g \in DOMAIN pflags : f # g => fprio[f] # fprio[g]
  /\ { fprio[f] : f \in PrimaryListed } = 1..Cardinality(PrimaryListed)
  /\ InListOrder(PrimaryListed)
  /\ \A a \in MemberListed : \A f \in PrimaryListed : fprio[a] > fprio[f]
  /\ InListOrder(MemberListed)
  /\ \A f \in DOMAIN pflags : internal_priority > fprio[f]

\* C19: the priorities are pairwise distinct positive integers; primary
\* files get 1..P in file-list order, archive members get larger priorities
\* in file-list order, and the internal file gets the largest priority.
C19_Priorities == pphase = "done" => PrioritiesAssigned

\* All priorities are assigned for a list in which an archive member comes
\* before a primary file and that has two files of each kind.
C19_Witness ==
  /\ pphase = "done"
  /\ Cardinality(PrimaryListed) >= 2
  /\ Cardinality(MemberListed) >= 2
  /\ \E a \in MemberListed : \E f \in PrimaryListed : a < f

\* The two loops compute what SetPriorities gives in closed form.
LoopsMatchSetPriorities ==
  pphase = "done" => \A f \in DOMAIN pflags : fprio[f] = SetPriorities(pflags)[f]

\* ------------------------------------------------------------------------
\* Pass 2 of handle_mergeable_strings, one reference at a time
\* ------------------------------------------------------------------------

\* The section layouts of the walk: a piece listed twice by one section, a
\* piece shared by two sections of one file, and a piece shared across files.
Pass2Shapes ==
  { << >>,
    << MSec(1, <<1, 2>>) >>,
    << MSec(1, <<2, 1, 2>>) >>,
    << MSec(1, <<2>>), MSec(1, <<1, 2>>) >> }

\* The task of file f when it enters section s: `u32 offset = 0` and the
\* first reference, or the store of isec.size if the section has no piece.
P2Enter(f, s) ==
  IF s > NSecs(f) THEN [s |-> 0, r |-> 0, pc |-> "done", offset |-> 0]
  ELSE IF Len(mfiles[f].sections[s].pieces) = 0
       THEN [s |-> s, r |-> 0, pc |-> "size", offset |-> 0]
       ELSE [s |-> s, r |-> 1, pc |-> "test", offset |-> 0]

\* The task after the reference it is at: the next reference of the
\* section, or the store of isec.size.
P2Advance(task, f, offset) ==
  IF task.r < Len(mfiles[f].sections[task.s].pieces)
  THEN [task EXCEPT !.r = @ + 1, !.pc = "test", !.offset = offset]
  ELSE [task EXCEPT !.pc = "size", !.offset = offset]

Pass2Start ==
  /\ mfiles \in [Files -> [in_archive : BOOLEAN, sections : Pass2Shapes]]
  /\ piece_isec = [p \in Pieces |-> NullSec]
  /\ piece_off = [p \in Pieces |-> -1]
  /\ sec_size = [k \in SecKeys |-> -1]
  /\ sec_offset = [k \in SecKeys |-> -1]
  /\ merged_size = [m \in MergedIds |-> 0]
  /\ merged_shoff = [m \in MergedIds |-> 0]
  /\ t1 = [f \in Files |-> TaskAt(FirstRefFrom(f, 1), NullSec)]
  /\ t2 = [f \in Files |-> 1]
  /\ p3done = FALSE
  /\ tw = [f \in Files |-> 0]
  /\ copied = [p \in Pieces |-> << >>]
  /\ p2t = [f \in Files |-> P2Enter(f, 1)]
  /\ off_readers = [p \in Pieces |-> {}]
  /\ off_writes = [p \in Pieces |-> << >>]

\* A variant without the barrier between the two parallel_for_each calls.
Pass2StartsEarly == TRUE

\* The second parallel_for_each is entered when the first has returned.
Pass2MayRun == Pass1Finished

\* `piece.isec == &isec && piece.output_offset == -1`: output_offset is
\* read only if the first operand holds.
P2Test(f) ==
  /\ Pass2MayRun
  /\ p2t[f].pc = "test"
  /\ LET k == <<f, p2t[f].s>>
         p == RefPiece(f, p2t[f].s, p2t[f].r)
     IN  IF piece_isec[p] = k
         THEN /\ off_readers' = [off_readers EXCEPT ![p] = @ \cup {k}]
              /\ p2t' = [p2t EXCEPT ![f] =
                           IF piece_off[p] = -1 THEN [@ EXCEPT !.pc = "store"]
                           ELSE P2Advance(@, f, @.offset)]
         ELSE /\ off_readers' = off_readers
              /\ p2t' = [p2t EXCEPT ![f] = P2Advance(@, f, @.offset)]
  /\ UNCHANGED <<mfiles, piece_isec, piece_off, sec_size, sec_offset, merged_size,
                 merged_shoff, t1, t2, p3done, tw, copied, off_writes>>
  /\ UNCHANGED notMergePass2

\* `ref.piece->output_offset = offset; offset += ref.piece->data.size();`
P2Store(f) ==
  /\ p2t[f].pc = "store"
  /\ LET k == <<f, p2t[f].s>>
         p == RefPiece(f, p2t[f].s, p2t[f].r)
     IN  /\ piece_off' = [piece_off EXCEPT ![p] = p2t[f].offset]
         /\ off_writes' = [off_writes EXCEPT ![p] = Append(@, k)]
         /\ p2t' = [p2t EXCEPT ![f] = P2Advance(@, f, @.offset + DataSize(p))]
  /\ UNCHANGED <<mfiles, piece_isec, sec_size, sec_offset, merged_size,
                 merged_shoff, t1, t2, p3done, tw, copied, off_readers>>
  /\ UNCHANGED notMergePass2

\* `isec.size = offset;` and the next section of the file.
P2Size(f) ==
  /\ Pass2MayRun
  /\ p2t[f].pc = "size"
  /\ sec_size' = [sec_size EXCEPT ![<<f, p2t[f].s>>] = p2t[f].offset]
  /\ p2t' = [p2t EXCEPT ![f] = P2Enter(f, p2t[f].s + 1)]
  /\ UNCHANGED <<mfiles, piece_isec, piece_off, sec_offset, merged_size,
                 merged_shoff, t1, t2, p3done, tw, copied, off_readers, off_writes>>
  /\ UNCHANGED notMergePass2

Pass2Next ==
  \/ \E f \in Files : P1Load(f)
  \/ \E f \in Files : P1Cas(f)
  \/ \E f \in Files : P2Test(f)
  \/ \E f \in Files : P2Store(f)
  \/ \E f \in Files : P2Size(f)

Pass2Init == Pass2Start /\ ResolveIdle /\ ComdatIdle /\ BinIdle /\ IsecIdle /\ ScanIdle /\ OsecIdle /\ RankIdle /\ ChunksIdle /\ SymtabIdle /\ PriorityIdle /\ PadIdle /\ WriterIdle

SpecPass2 == Pass2Init /\ [][Pass2Next]_vars

\* ---- properties of pass 2 ----

\* Some pass-2 task has taken a step.
Pass2Started == \E f \in Files : p2t[f] # P2Enter(f, 1)

Pass2Returned == \A f \in Files : p2t[f].pc = "done"

\* output_offset of every piece was read and written by its winning section
\* only, and written at most once; pass 2 runs after pass 1.
OffsetOwned ==
  /\ \A p \in Pieces :
       /\ off_readers[p] \subseteq {piece_isec[p]}
       /\ \A i \in 1..Len(off_writes[p]) : off_writes[p][i] = piece_isec[p]
       /\ Len(off_writes[p]) <= 1
  /\ Pass2Started => Pass1Finished

\* A step taken once pass 2 has started leaves every winner as it is.
WinnersFrozen == Pass2Started => piece_isec' = piece_isec

\* C21: under every interleaving of the per-file tasks of pass 2, a piece's
\* output_offset is read and written only by the task of the piece's winning
\* section and written at most once, pass 2 starts after every pass-1 task
\* has finished, and no winner changes while pass 2 runs.
C21_OffsetOwnedByWinner == []OffsetOwned /\ [][WinnersFrozen]_vars

\* Pass 2 has returned; a piece held by sections of both files was written
\* once by its winner, and a section that lists a piece twice wrote it once.
C21_Witness ==
  /\ Pass2Returned
  /\ \E p \in Pieces :
       /\ Cardinality({k[1] : k \in Holders(p)}) >= 2
       /\ Len(off_writes[p]) = 1
  /\ \E k \in SecKeys : \E r1, r2 \in 1..Len(SecOf(k).pieces) :
       /\ r1 < r2
       /\ RefPiece(k[1], k[2], r1) = RefPiece(k[1], k[2], r2)
       /\ off_writes[RefPiece(k[1], k[2], r1)] = <<k>>

\* ------------------------------------------------------------------------
\* clear_padding
\* ------------------------------------------------------------------------

\* A variant of the lambda `zero` that starts at the chunk's first byte.
ZeroFromStart(n) == sh_offset[n]

\* The lambda `zero`: pos is sh_offset, plus sh_size unless the chunk is
\* SHT_NOBITS.
ZeroFrom(n) ==
  IF ~chunks[n].nobits THEN sh_offset[n] + chunks[n].size ELSE sh_offset[n]

\* memset(buf + pos, 0, next_start - pos)
Memset(n, next_start) == [pos |-> ZeroFrom(n), len |-> next_start - ZeroFrom(n)]

\* set_osec_offsets has returned the file size; the chunk list of main
\* holds the headers, so it is not empty.
PadMayRun == filesize # -1 /\ Len(chunks) > 0 /\ ~pad_done

\* One iteration of the loop: zero(chunks[i - 1], chunks[i]->shdr.sh_offset).
ZeroGap ==
  /\ PadMayRun
  /\ zi < Len(chunks)
  /\ zeroed' = Append(zeroed, Memset(zi, sh_offset[zi + 1]))
  /\ zi' = zi + 1
  /\ UNCHANGED pad_done
  /\ UNCHANGED notPad

\* zero(chunks.back(), filesize)
ZeroTail ==
  /\ PadMayRun
  /\ zi >= Len(chunks)
  /\ zeroed' = Append(zeroed, Memset(Len(chunks), filesize))
  /\ pad_done' = TRUE
  /\ UNCHANGED zi
  /\ UNCHANGED notPad

PadNext ==
  \/ OsecNext
  \/ ZeroGap
  \/ ZeroTail

SpecPad == OsecInit /\ [][PadNext]_vars

\* ---- properties of clear_padding ----

\* Byte b is inside the range a memset call cleared.
InMemset(b, m) == m.pos <= b /\ b < m.pos + m.len

\* Byte b is inside a chunk that takes room in the file.
InChunk(b, n) == ~chunks[n].nobits /\ sh_offset[n] <= b /\ b < ChunkEnd(n)

\* The bytes at which a run of bytes that no chunk holds and no memset
\* cleared can start: byte 0 and the byte after each range.
RunStarts ==
  {0} \cup { ChunkEnd(n) : n \in InFile }
      \cup { zeroed[i].pos + zeroed[i].len : i \in 1..Len(zeroed) }

PaddingCleared ==
  /\ \A i \in 1..Len(zeroed) : zeroed[i].len >= 0 /\ zeroed[i].pos >= 0
  /\ \A i \in 1..Len(zeroed) : zeroed[i].pos + zeroed[i].len <= filesize
  /\ \A i \in 1..Len(zeroed) : \A n \in InFile :
       \/ zeroed[i].pos + zeroed[i].len <= sh_offset[n]
       \/ ChunkEnd(n) <= zeroed[i].pos
       \/ zeroed[i].len = 0
       \/ chunks[n].size = 0
  /\ \A b \in RunStarts :
       b < filesize =>
         \/ \E n \in InFile : InChunk(b, n)
         \/ \E i \in 1..Len(zeroed) : InMemset(b, zeroed[i])

\* C22: clear_padding computes no negative length, clears no byte of a
\* chunk that is not SHT_NOBITS, and clears every byte of the file that no
\* such chunk holds.
C22_PaddingCleared == pad_done => PaddingCleared

\* clear_padding has returned for a list with a gap between two chunks that
\* take room in the file, a .bss chunk between chunks, and a tail.
C22_Witness ==
  /\ pad_done
  /\ Len(chunks) = 3
  /\ ~chunks[1].nobits /\ chunks[1].size > 0
  /\ chunks[2].nobits
  /\ ~chunks[3].nobits /\ chunks[3].size > 0
  /\ zeroed[1].len > 0
  /\ zeroed[2].len > 0

\* ------------------------------------------------------------------------
\* The writer passes of main
\* ------------------------------------------------------------------------

\* Largest number of chunks, and of files, the writer handles.
MaxWItems == 2

\* A variant of main that fills the GOT and PLT before the symbol table.
WriterStepsGotPltFirst ==
  << "set_osec_offsets", "fix_synthetic_symbols", "open_output_file",
     "initialize", "copy_to", "write_got_plt", "write_symtab",
     "write_merged_strings", "clear_padding", "munmap" >>

\* The calls of main from set_osec_offsets to munmap, in program order.
WriterSteps ==
  << "set_osec_offsets", "fix_synthetic_symbols", "open_output_file",
     "initialize", "copy_to", "write_symtab", "write_got_plt",
     "write_merged_strings", "clear_padding", "munmap" >>

StepNames == { WriterSteps[i] : i \in 1..Len(WriterSteps) }

\* The tasks of a step: one per chunk, one per file, or the one call.
Items(step) ==
  IF step \in {"initialize", "copy_to"} THEN 1..nchunks
  ELSE IF step \in {"write_symtab", "write_got_plt", "write_merged_strings"}
  THEN 1..nfiles
  ELSE {1}

WriterStart ==
  /\ nchunks \in 1..MaxWItems
  /\ nfiles \in 1..MaxWItems
  /\ wpc = 1
  /\ wtask = [i \in Items(WriterSteps[1]) |-> "idle"]
  /\ wstarted = [s \in StepNames |-> {}]
  /\ wfinished = [s \in StepNames |-> {}]
  /\ buf = "none"

\* A task of the running step starts.
TaskBegin(i) ==
  /\ wpc <= Len(WriterSteps)
  /\ i \in DOMAIN wtask
  /\ wtask[i] = "idle"
  /\ wtask' = [wtask EXCEPT ![i] = "running"]
  /\ wstarted' = [wstarted EXCEPT ![WriterSteps[wpc]] = @ \cup {i}]
  /\ UNCHANGED <<nchunks, nfiles, wpc, wfinished, buf>>
  /\ UNCHANGED notWriter

\* A task of the running step returns; open_output_file returns the mapped
\* buffer and munmap releases it.
TaskEnd(i) ==
  /\ wpc <= Len(WriterSteps)
  /\ i \in DOMAIN wtask
  /\ wtask[i] = "running"
  /\ wtask' = [wtask EXCEPT ![i] = "done"]
  /\ wfinished' = [wfinished EXCEPT ![WriterSteps[wpc]] = @ \cup {i}]
  /\ buf' = IF WriterSteps[wpc] = "open_output_file" THEN "mapped"
            ELSE IF WriterSteps[wpc] = "munmap" THEN "unmapped"
            ELSE buf
  /\ UNCHANGED <<nchunks, nfiles, wpc, wstarted>>
  /\ UNCHANGED notWriter

\* The call (or the parallel loop) returns when all its tasks have returned;
\* main goes on to the next step.
StepReturns ==
  /\ wpc <= Len(WriterSteps)
  /\ \A i \in DOMAIN wtask : wtask[i] = "done"
  /\ wpc' = wpc + 1
  /\ wtask' = IF wpc < Len(WriterSteps)
              THEN [i \in Items(WriterSteps[wpc + 1]) |-> "idle"]
              ELSE << >>
  /\ UNCHANGED <<nchunks, nfiles, wstarted, wfinished, buf>>
  /\ UNCHANGED notWriter

WriterNext ==
  \/ \E i \in 1..MaxWItems : TaskBegin(i)
  \/ \E i \in 1..MaxWItems : TaskEnd(i)
  \/ StepReturns

WriterInit == WriterStart /\ MergeIdle /\ ResolveIdle /\ ComdatIdle /\ BinIdle /\ IsecIdle /\ ScanIdle /\ OsecIdle /\ RankIdle /\ ChunksIdle /\ SymtabIdle /\ Pass2Idle /\ PadIdle /\ PriorityIdle

SpecWriter == WriterInit /\ [][WriterNext]_vars

\* ---- properties of the writer ----

\* The passes run in the given order: a task of a pass has started only if
\* every task of the pass before it has returned.
PassesInOrder(order) ==
  \A k \in 2..Len(order) :
    wstarted[order[k]] # {} => wfinished[order[k - 1]] = Items(order[k - 1])

\* The buffer exists only after set_osec_offsets and fix_synthetic_symbols
\* have returned.
BufferAfterLayout ==
  (buf # "none" \/ wstarted["open_output_file"] # {}) =>
    /\ wfinished["set_osec_offsets"] = {1}
    /\ wfinished["fix_synthetic_symbols"] = {1}

\* C23 as claimed: the GOT and PLT entries are written before the symbol
\* table.
C23_Original ==
  /\ PassesInOrder(<< "initialize", "copy_to", "write_got_plt", "write_symtab",
                      "write_merged_strings", "clear_padding", "munmap" >>)
  /\ BufferAfterLayout

\* C23: the writer runs its passes in the order initialize, copy_to,
\* write symtab/strtab, write GOT/PLT entries, write mergeable strings,
\* clear padding, unmap; each pass starts only after the one before it has
\* finished for all chunks or files, and the buffer is created only after
\* set_osec_offsets and fix_synthetic_symbols have finished.
C23_WriterOrder ==
  /\ PassesInOrder(<< "initialize", "copy_to", "write_symtab", "write_got_plt",
                      "write_merged_strings", "clear_padding", "munmap" >>)
  /\ BufferAfterLayout

\* The writer has unmapped the buffer after every pass ran over two chunks
\* and two files.
C23_Witness ==
  /\ wpc > Len(WriterSteps)
  /\ buf = "unmapped"
  /\ nchunks = 2 /\ nfiles = 2
  /\ \A s \in StepNames : wfinished[s] = Items(s)

====
